---- MODULE Spec2Model ----
(***************************************************************************)
(* Model of the HTTP core of obadmatar/base: the router (registration,     *)
(* middleware composition, per-request dispatch with panic recovery and    *)
(* error classification) and the ListenAndServe lifecycle (listener        *)
(* goroutine, signal channel, select, graceful shutdown).                  *)
(*                                                                         *)
(* Conventions.                                                            *)
(*   - A Go map is a set of <<key, value>> pairs with unique keys; the nil *)
(*     map is {}.                                                          *)
(*   - A Go error value is the sequence of the errors that errors.As       *)
(*     visits, in visiting order (the error itself, then what Unwrap       *)
(*     yields, depth first).  One element is [kind, msg, data].            *)
(*   - A text built by concatenation is the tuple of its parts.            *)
(***************************************************************************)
EXTENDS Integers, Sequences, FiniteSets, TLC

VARIABLES
    handlers,   \* router.handlers: set of <<pattern, handler>>
    mwares,     \* router.mwares: sequence of middleware
    mux,        \* router.mux: set of <<pattern, compiled chain>>
    proc,       \* the process: "up", or "exited" after log.Fatal
    lastCall,   \* the most recent Handle/Use call and whether serving had begun
    cpc,        \* position of the goroutine running ListenAndServe
    done,       \* chan error, capacity 1
    quit,       \* chan os.Signal, capacity 1
    lsn,        \* the listener goroutine: "off", "listening", "stopped", "sent"
    lres,       \* what server.ListenAndServe returned
    ret,        \* what router.ListenAndServe returned
    branch,     \* the select case taken: "none", "done", "quit"
    grace,      \* config.GracefulShutdown, in ticks
    elapsed,    \* ticks since the shutdown context was created
    ctxErr,     \* ctx.Err() of the shutdown context as Shutdown saw it
    arrivals,   \* history: the order in which the two channels got a value before a case was taken
    ready,      \* history: the cases that could proceed when select was entered
    drain,      \* history: requests in flight when Shutdown began
    rq,         \* per request: its position in handleRequest and what it wrote
    fieldCache, \* valid.fieldCache: set of <<cache key, field map>>
    tasks,      \* goroutines calling valid.Struct: position, type, key, what they read
    din,        \* dispatch of one request: what the handler chain did
    dout,       \* dispatch of one request: what the router wrote
    dpc,        \* dispatch of one request: "decode", "call" or "done"
    dreq,       \* the request a handler decodes: body or query, and the target
    dlog,       \* history of that Decode call: the phases run, the value validated
    cfg         \* a Config: as loaded, as Validate left it, and what Validate returned

routerVars == <<handlers, mwares, mux, proc, lastCall>>
ctrlVars == <<cpc, done, quit, lsn, lres, ret, branch, grace, elapsed, ctxErr>>
histVars == <<arrivals, ready, drain>>
pureVars == <<fieldCache, tasks, din, dout, dpc, dreq, dlog, cfg>>
vars == <<routerVars, ctrlVars, histVars, rq, pureVars>>

----
\* Bounds of the model.
MaxChain == 2      \* errors visited by errors.As in one returned error
MaxMwares == 2     \* middleware registered with Use
MaxReqs == 2       \* requests served
MaxGrace == 1      \* largest GracefulShutdown, in ticks

\* Program constants.
StatusBadRequest == 400
StatusNotFound == 404
StatusInternalServerError == 500
ChanCap == 1

Nil == "nil"

----
\* Go maps as sets of pairs.
MapKeys(m) == {p[1] : p \in m}

MapHas(m, k) == k \in MapKeys(m)

MapGet(m, k) == (CHOOSE p \in m : p[1] = k)[2]

MapPut(m, k, v) == {p \in m : p[1] # k} \cup {<<k, v>>}

----
\* The values the model draws.
Messages == {"m1", "m2"}

\* strings.ToLower on the field names of the model.
ToLower(s) ==
    CASE s = "Name" -> "name"
      [] s = "Age" -> "age"
      [] s = "Ids" -> "ids"
      [] s = "Email" -> "email"
      [] s = "Page" -> "page"
      [] s = "BOB" -> "bob"
      [] OTHER -> s

\* A text made of words joined by a separator.
Joined(sep, toks) == [sep |-> sep, toks |-> toks]

\* strings.Join(strings.Split(param, " "), ","): the parameter is kept as the
\* sequence of its space-separated words.
ParamText(param) == Joined(" ", param)

\* The switch on e.Tag() in ExtractFieldErrors.
RuleMessage(tag, param) ==
    CASE tag = "required" -> <<"is required">>
      [] tag = "email" -> <<"Please provide a valid ">>
      [] tag = "min" -> <<"must be at least ", ParamText(param), " characters">>
      [] tag = "max" -> <<"cannot be more than ", ParamText(param), " characters">>
      [] tag = "gte" -> <<"must be greater than or equal to ", ParamText(param)>>
      [] tag = "lte" -> <<"must be less than or equal to ", ParamText(param)>>
      [] tag = "len" -> <<"must be exactly ", ParamText(param), " characters">>
      [] tag = "uuid" -> <<"must be a valid UUID">>
      [] tag = "alpha" -> <<"must contain only alphabetic characters">>
      [] tag = "alphanum" -> <<"must contain only alphanumeric characters">>
      [] tag = "numeric" -> <<"must be a numeric value">>
      [] tag = "url" -> <<"must be a valid URL">>
      [] tag = "ip" -> <<"must be a valid IP address">>
      [] tag = "ipv4" -> <<"must be a valid IPv4 address">>
      [] tag = "ipv6" -> <<"must be a valid IPv6 address">>
      [] tag = "gt" -> <<"must be greater than ", ParamText(param)>>
      [] tag = "lt" -> <<"must be less than ", ParamText(param)>>
      [] tag = "datetime" -> <<"must be a valid datetime">>
      [] tag = "oneof" -> <<"must be one of: [", Joined(",", param), "]">>
      [] tag \in {"eq", "eqfield"} -> <<"must be equal to ", ParamText(param)>>
      [] tag = "gtfield" -> <<"must be greater than ", ParamText(param)>>
      [] tag = "ltfield" -> <<"must be less than ", ParamText(param)>>
      [] tag = "nefield" -> <<"must not be equal to ", ParamText(param)>>
      [] tag = "eqcsfield" -> <<"must be equal to the related field ", ParamText(param)>>
      [] tag = "gtcsfield" -> <<"must be greater than the related field ", ParamText(param)>>
      [] tag = "ltcsfield" -> <<"must be less than the related field ", ParamText(param)>>
      [] tag = "cidr" -> <<"must be a valid CIDR address">>
      [] tag = "cidrv4" -> <<"must be a valid CIDR IPv4 address">>
      [] tag = "cidrv6" -> <<"must be a valid CIDR IPv6 address">>
      [] tag = "hostname" -> <<"must be a valid hostname">>
      [] tag = "hostname_port" -> <<"must be a valid Host:Port">>
      [] tag = "ip4_addr" -> <<"must be a valid IPv4 address">>
      [] tag = "ip6_addr" -> <<"must be a valid IPv6 address">>
      [] tag = "mac" -> <<"must be a valid MAC address">>
      [] tag = "alphaunicode" -> <<"must contain only unicode alphabetic characters">>
      [] tag = "alphanumunicode" -> <<"must contain only unicode alphanumeric characters">>
      [] tag = "ascii" -> <<"must contain only ASCII characters">>
      [] tag = "contains" -> <<"must contain the specified characters">>
      [] tag = "containsany" -> <<"must contain any of the specified characters">>
      [] tag = "lowercase" -> <<"must be lowercase">>
      [] tag = "uppercase" -> <<"must be uppercase">>
      [] tag = "base64" -> <<"must be a valid Base64 encoded string">>
      [] tag \in {"uuid3", "uuid4", "uuid5"} -> <<"must be a valid UUID v3, v4, or v5">>
      [] tag = "json" -> <<"must be a valid JSON string">>
      [] tag = "credit_card" -> <<"must be a valid credit card number">>
      [] tag = "dir" -> <<"must be an existing directory">>
      [] tag = "file" -> <<"must be an existing file">>
      [] tag = "image" -> <<"must be a valid image file">>
      [] tag = "unique" -> <<"must be unique">>
      [] OTHER -> <<"is invalid">>

----
\* Struct types seen by the validator.  A field carries its json and query
\* struct tags as the sequence of their comma-separated parts (the empty tag
\* is <<"">>).
Field(name, json, query) == [name |-> name, json |-> json, query |-> query]

StructT ==
    [name |-> "pkg.T",
     fields |-> <<Field("Name", <<"full_name", "omitempty">>, <<"">>),
                  Field("Age", <<"">>, <<"">>)>>]

\* A struct whose json tags name no field: `json:",omitempty"` and `json:"-"`.
StructU ==
    [name |-> "pkg.U",
     fields |-> <<Field("Email", <<"", "omitempty">>, <<"">>),
                  Field("Page", <<"-">>, <<"page", "omitempty">>)>>]

\* fieldTagValue: the json tag name, else the query tag name, else the
\* lowercased field name.
fieldTagValue(field) ==
    IF field.json # <<"">> /\ field.json # <<"-">> THEN field.json[1]
    ELSE IF field.query # <<"">> /\ field.query # <<"-">> THEN field.query[1]
    ELSE ToLower(field.name)

\* structCacheKey: t.String()
structCacheKey(t) == t.name

\* The loop of cacheTypeFields building fieldsMap.
RECURSIVE FieldsMapFrom(_, _, _)
FieldsMapFrom(t, i, fieldsMap) ==
    IF i > Len(t.fields) THEN fieldsMap
    ELSE FieldsMapFrom(t, i + 1, MapPut(fieldsMap, t.fields[i].name, fieldTagValue(t.fields[i])))

\* cacheTypeFields: the cache after the call (a cached key is left alone).
cacheTypeFields(cache, t) ==
    IF MapHas(cache, structCacheKey(t)) THEN cache
    ELSE MapPut(cache, structCacheKey(t), FieldsMapFrom(t, 1, {}))

\* The loop of ExtractFieldErrors over vrr.ValidationErrors[i..], writing
\* errorMap[fieldName] = errorMsg for each violation in order.
RECURSIVE ExtractLoop(_, _, _, _)
ExtractLoop(violations, i, fieldMap, errorMap) ==
    IF i > Len(violations) THEN errorMap
    ELSE LET e == violations[i]
             errorMsg == RuleMessage(e.tag, e.param)
             fieldName == IF MapHas(fieldMap, e.field)
                          THEN MapGet(fieldMap, e.field)
                          ELSE ToLower(e.field)
         IN ExtractLoop(violations, i + 1, fieldMap, MapPut(errorMap, fieldName, errorMsg))

\* valid.ExtractFieldErrors: vrr is [cacheKey, violations].
ExtractFieldErrors(vrr) ==
    LET fieldMap == IF MapHas(fieldCache, vrr.cacheKey)
                    THEN MapGet(fieldCache, vrr.cacheKey)
                    ELSE {}
    IN ExtractLoop(vrr.violations, 1, fieldMap, {})

----
\* Error values.  kind is the dynamic type of one error of the chain:
\* "Binding" = *BindingError, "Validation" = valid.Errors, "NotFound" =
\* *NotFoundError, "Domain" = *DomainError, "Other" = any other type.
ErrElem(kind, msg, errors, cacheKey, violations) ==
    [kind |-> kind, msg |-> msg, errors |-> errors,
     cacheKey |-> cacheKey, violations |-> violations]

Violation(field, tag, param) == [field |-> field, tag |-> tag, param |-> param]

\* newBindingError / &BindingError{Message, Errors}
BindingErrors ==
    {ErrElem("Binding", m, f, "", <<>>) :
        m \in Messages, f \in {{}, {<<"age", <<"cannot parse">>>>}}}

\* valid.Struct's Errors{cacheKey, ValidationErrors}
ValidationErrors ==
    {ErrElem("Validation", "", {}, "pkg.T", v) :
        v \in {<<Violation("Name", "required", <<>>)>>,
               <<Violation("Age", "min", <<"3">>), Violation("Name", "nosuchrule", <<>>)>>}}
    \cup {ErrElem("Validation", "", {}, "pkg.U",
                  <<Violation("Email", "required", <<>>), Violation("Page", "gte", <<"1">>)>>)}

\* base.NotFoundErrorf
NotFoundErrors == {ErrElem("NotFound", m, {}, "", <<>>) : m \in Messages}

\* base.Errorf
DomainErrors == {ErrElem("Domain", m, {}, "", <<>>) : m \in Messages}

\* errors.New, fmt.Errorf("...: %w", err), errors.Join
OtherErrors == {ErrElem("Other", m, {}, "", <<>>) : m \in Messages}

ErrElems == BindingErrors \cup ValidationErrors \cup NotFoundErrors \cup DomainErrors \cup OtherErrors

RECURSIVE SeqsUpTo(_, _)
SeqsUpTo(S, n) ==
    IF n = 0 THEN {<<>>}
    ELSE LET shorter == SeqsUpTo(S, n - 1)
         IN shorter \cup {Append(q, x) : q \in {t \in shorter : Len(t) = n - 1}, x \in S}

\* The non-nil errors a handler chain can return.
Errors == SeqsUpTo(ErrElems, MaxChain) \ {<<>>}

\* errors.As(err, &target) for a target of the given type: the index of the
\* first error of the chain whose type is assignable to the target, 0 if none.
\* *NotFoundError embeds DomainError but is a distinct pointer type: it is not
\* assignable to *DomainError.
RECURSIVE AsFrom(_, _, _)
AsFrom(err, kind, i) ==
    IF i > Len(err) THEN 0
    ELSE IF err[i].kind = kind THEN i
    ELSE AsFrom(err, kind, i + 1)

As(err, kind) == AsFrom(err, kind, 1)

----
\* ErrorResponse and the writers.
ErrorResponse(status, tag, message, errors) ==
    [Status |-> status, Error |-> tag, Message |-> message, Errors |-> errors]

\* json.Marshal of an ErrorResponse (an int, two strings, a map of strings)
\* cannot fail.
jsonMarshal(body) == Nil

\* encode: the marshal error is returned; the error of w.Write is dropped and
\* nil is returned.  conn is whether the connection still takes the write.
encode(conn, status, body) ==
    IF jsonMarshal(body) # Nil
    THEN [err |-> jsonMarshal(body), wrote |-> <<>>]
    ELSE [err |-> Nil,
          wrote |-> <<[code |-> status, body |-> body, delivered |-> (conn = "open")]>>]

BadRequest(conn, body) == encode(conn, StatusBadRequest, body)

NotFound(conn, body) == encode(conn, StatusNotFound, body)

InternalServerError(conn, body) == encode(conn, StatusInternalServerError, body)

\* Context.internalServerError: one write, its error only logged.
internalServerError(conn) ==
    InternalServerError(conn,
        ErrorResponse(StatusInternalServerError, "INTERNAL_ERROR", "Something went wrong", {})).wrote

\* The tail shared by the four send functions: on a write error, log and
\* call ctx.internalServerError().
\* Mutant: the internal error response follows every classified response.
SendAndFallback(conn, r) == r.wrote \o internalServerError(conn)

SendOrFallback(conn, r) ==
    r.wrote \o (IF r.err # Nil THEN internalServerError(conn) ELSE <<>>)

sendDecodeErrorResponse(conn, e) ==
    SendOrFallback(conn,
        BadRequest(conn, ErrorResponse(StatusBadRequest, "DECODE_ERROR", e.msg, e.errors)))

sendValidationErrorResponse(conn, e) ==
    SendOrFallback(conn,
        BadRequest(conn, ErrorResponse(StatusBadRequest, "VALIDATION_ERROR", "Invalid Request",
                                       ExtractFieldErrors(e))))

\* Mutant: the not-found response sent as a Bad Request.
sendNotFoundAsBadRequest(conn, d) ==
    SendOrFallback(conn,
        BadRequest(conn, ErrorResponse(StatusBadRequest, "DOMAIN_ERROR", d.msg, {})))

\* Mutant: the body of the not-found response carries the status of a bad
\* request under the HTTP status 404.
sendNotFoundBodyStatus400(conn, d) ==
    SendOrFallback(conn,
        NotFound(conn, ErrorResponse(StatusBadRequest, "DOMAIN_ERROR", d.msg, {})))

sendNotFoundErrorResponse(conn, d) ==
    SendOrFallback(conn,
        NotFound(conn, ErrorResponse(StatusNotFound, "DOMAIN_ERROR", d.msg, {})))

sendDomainErrorResponse(conn, d) ==
    SendOrFallback(conn,
        BadRequest(conn, ErrorResponse(StatusBadRequest, "DOMAIN_ERROR", d.msg, {})))

\* Mutant: an unclassified error is answered with its own message.
classifyEchoOther(conn, err) ==
    IF As(err, "Binding") # 0 THEN sendDecodeErrorResponse(conn, err[As(err, "Binding")])
    ELSE IF As(err, "Validation") # 0 THEN sendValidationErrorResponse(conn, err[As(err, "Validation")])
    ELSE IF As(err, "NotFound") # 0 THEN sendNotFoundErrorResponse(conn, err[As(err, "NotFound")])
    ELSE IF As(err, "Domain") # 0 THEN sendDomainErrorResponse(conn, err[As(err, "Domain")])
    ELSE InternalServerError(conn,
             ErrorResponse(StatusInternalServerError, "INTERNAL_ERROR", err[1].msg, {})).wrote

\* Mutant: DomainError checked before NotFoundError.
classifyDomainFirst(conn, err) ==
    IF As(err, "Binding") # 0 THEN sendDecodeErrorResponse(conn, err[As(err, "Binding")])
    ELSE IF As(err, "Validation") # 0 THEN sendValidationErrorResponse(conn, err[As(err, "Validation")])
    ELSE IF As(err, "Domain") # 0 THEN sendDomainErrorResponse(conn, err[As(err, "Domain")])
    ELSE IF As(err, "NotFound") # 0 THEN sendNotFoundErrorResponse(conn, err[As(err, "NotFound")])
    ELSE internalServerError(conn)

\* The body of handleRequest after h.Handle returned err # nil.
classify(conn, err) ==
    IF As(err, "Binding") # 0 THEN sendDecodeErrorResponse(conn, err[As(err, "Binding")])
    ELSE IF As(err, "Validation") # 0 THEN sendValidationErrorResponse(conn, err[As(err, "Validation")])
    ELSE IF As(err, "NotFound") # 0 THEN sendNotFoundErrorResponse(conn, err[As(err, "NotFound")])
    ELSE IF As(err, "Domain") # 0 THEN sendDomainErrorResponse(conn, err[As(err, "Domain")])
    ELSE internalServerError(conn)

\* What the handler chain did: returned nil, returned an error, or panicked.
Result(type, err, pv) == [type |-> type, err |-> err, pv |-> pv]

Results ==
    {Result("nil", <<>>, "")}
    \cup {Result("err", e, "") : e \in Errors}
    \cup {Result("panic", <<>>, pv) : pv \in Messages}

\* Mutant: handleRequest without the deferred recover; the panic ends the
\* request with nothing written.
handleRequestNoRecover(conn, res) ==
    IF res.type = "err" THEN classify(conn, res.err) ELSE <<>>

\* Mutant: a chain that returned nil is answered as well.
handleRequestAnswersNil(conn, res) ==
    IF res.type = "err" THEN classify(conn, res.err)
    ELSE internalServerError(conn)

\* router.handleRequest: what the router writes for one request, given what
\* h.Handle(ctx) did.  The deferred recover answers a panic.
handleRequest(conn, res) ==
    IF res.type = "panic" THEN internalServerError(conn)
    ELSE IF res.type = "err" THEN classify(conn, res.err)
    ELSE <<>>

----
\* The router: registration and compilation of the handler chains.
Patterns == {"/a", "/b"}
HandlerIds == {"h1", "h2"}
Middlewares == {"A", "B"}

\* A compiled handler is the sequence of its layers, outermost first: the
\* middleware m applied to the handler h is <<m>> \o h.
Wrap(m, h) == <<m>> \o h

\* The loop of applyMiddlewares: for i := len(r.mwares)-1; i >= 0; i--.
RECURSIVE applyLoop(_, _, _)
applyLoop(mw, i, h) ==
    IF i < 1 THEN h
    ELSE applyLoop(mw, i - 1, Wrap(mw[i], h))

\* Mutant: the loop run from the first middleware to the last.
RECURSIVE applyLoopForward(_, _, _)
applyLoopForward(mw, i, h) ==
    IF i > Len(mw) THEN h
    ELSE applyLoopForward(mw, i + 1, Wrap(mw[i], h))

applyMiddlewaresForward(mw, h) == applyLoopForward(mw, 1, h)

\* router.applyMiddlewares
applyMiddlewares(mw, h) == applyLoop(mw, Len(mw), h)

\* The loop of ListenAndServe registering every route on r.mux.
compile(hs, mw) == {<<p[1], applyMiddlewares(mw, <<p[2]>>)>> : p \in hs}

started == cpc # "idle"

\* Mutant: a duplicate pattern replaces the handler instead of being fatal.
HandleOverwrite(pattern, h) ==
    /\ proc = "up"
    /\ handlers' = MapPut(handlers, pattern, h)
    /\ lastCall' = [op |-> "Handle", pattern |-> pattern, started |-> started]
    /\ UNCHANGED <<mwares, mux, proc, ctrlVars, histVars, rq, pureVars>>

\* router.Handle: log.Fatal (os.Exit) on a registered pattern, else the
\* pattern is bound to h.
Handle(pattern, h) ==
    /\ proc = "up"
    /\ IF MapHas(handlers, pattern)
       THEN /\ proc' = "exited"
            /\ UNCHANGED handlers
       ELSE /\ handlers' = MapPut(handlers, pattern, h)
            /\ UNCHANGED proc
    /\ lastCall' = [op |-> "Handle", pattern |-> pattern, started |-> started]
    /\ UNCHANGED <<mwares, mux, ctrlVars, histVars, rq, pureVars>>

\* router.Use: append(r.mwares, middleware...)
Use(ms) ==
    /\ proc = "up"
    /\ Len(mwares) + Len(ms) <= MaxMwares
    /\ mwares' = mwares \o ms
    /\ lastCall' = [op |-> "Use", pattern |-> "", started |-> started]
    /\ UNCHANGED <<handlers, mux, proc, ctrlVars, histVars, rq, pureVars>>

\* router.ListenAndServe up to the select: the routes are compiled onto
\* r.mux, the listener goroutine is started, quit is registered for
\* SIGINT/SIGTERM.
ListenAndServe ==
    /\ proc = "up"
    /\ cpc = "idle"
    /\ mux' = compile(handlers, mwares)
    /\ lsn' = "listening"
    /\ cpc' = "select"
    /\ UNCHANGED <<handlers, mwares, proc, lastCall, done, quit, lres, ret, branch,
                   grace, elapsed, ctxErr, histVars, rq, pureVars>>

----
\* Requests.  One request is one call of handleRequest on its own goroutine.
Reqs == 1..MaxReqs

NoResult == Result("nil", <<>>, "")

IdleReq ==
    [st |-> "idle", route |-> "", depth |-> 0, res |-> NoResult,
     conn |-> "open", writes |-> <<>>, trace |-> <<>>]

\* What a layer of the chain may do besides calling the next one.
Faults ==
    {NoResult,
     Result("panic", <<>>, "m1"),
     Result("err", <<ErrElem("Domain", "m1", {}, "", <<>>)>>, "")}

chainOf(r) == MapGet(mux, rq[r].route)

inflight == {r \in DOMAIN rq : rq[r].st = "chain"}

\* The exits of the layers depth..1, innermost first.
RECURSIVE unwind(_, _)
unwind(chain, depth) ==
    IF depth < 1 THEN <<>>
    ELSE <<<<"out", chain[depth]>>>> \o unwind(chain, depth - 1)

\* The server hands a request for a registered pattern to its compiled
\* handler: newContext, then handleRequest calls h.Handle, entering the
\* outermost layer.  Requests are numbered in their order of arrival.
Arrive(r, p) ==
    /\ proc = "up"
    /\ lsn = "listening"
    /\ rq[r].st = "idle"
    /\ \A q \in DOMAIN rq : q < r => rq[q].st # "idle"
    /\ MapHas(mux, p)
    /\ rq' = [rq EXCEPT ![r] = [IdleReq EXCEPT !.st = "chain", !.route = p, !.depth = 1,
                                               !.trace = <<<<"in", MapGet(mux, p)[1]>>>>]]
    /\ UNCHANGED <<routerVars, ctrlVars, histVars, pureVars>>

\* The current layer calls the next one.
Enter(r) ==
    /\ proc = "up"
    /\ rq[r].st = "chain"
    /\ rq[r].depth < Len(chainOf(r))
    /\ rq' = [rq EXCEPT ![r].depth = @ + 1,
                        ![r].trace = Append(@, <<"in", chainOf(r)[rq[r].depth + 1]>>)]
    /\ UNCHANGED <<routerVars, ctrlVars, histVars, pureVars>>

\* The current layer returns res or panics; the layers around it return what
\* it returned (a panic unwinds them without their post-processing);
\* handleRequest classifies and answers.
Finish(r, res, conn) ==
    /\ proc = "up"
    /\ rq[r].st = "chain"
    /\ rq' = [rq EXCEPT ![r].st = "done",
                        ![r].res = res,
                        ![r].conn = conn,
                        ![r].trace = IF res.type = "panic" THEN @
                                     ELSE @ \o unwind(chainOf(r), rq[r].depth),
                        ![r].writes = handleRequest(conn, res)]
    /\ UNCHANGED <<routerVars, ctrlVars, histVars, pureVars>>

----
\* The lifecycle controller: router.ListenAndServe from the select on.
ErrServerClosed == "http: Server closed"
ErrListen == "listen tcp: address already in use"
DeadlineExceeded == "context deadline exceeded"
Pending == "pending"

\* What server.ListenAndServe can return on its own: a listen/accept failure,
\* or ErrServerClosed when a handler being served shut the server down (it
\* reaches the server through http.ServerContextKey).  It never returns nil.
ListenerResults == {ErrListen, ErrServerClosed}

\* The controller has not yet taken a case of the select.
deciding == cpc \in {"select", "blocked"}

\* server.ListenAndServe returns.
ListenerStop(e) ==
    /\ proc = "up"
    /\ lsn = "listening"
    /\ e = ErrServerClosed => inflight # {}
    /\ lsn' = "stopped"
    /\ lres' = e
    /\ UNCHANGED <<routerVars, cpc, done, quit, ret, branch, grace, elapsed, ctxErr,
                   histVars, rq, pureVars>>

\* Mutant: done has no buffer, the send needs the controller in the select.
ListenerSendUnbuffered ==
    /\ proc = "up"
    /\ lsn = "stopped"
    /\ cpc = "blocked"
    /\ cpc' = "recvDone"
    /\ lsn' = "sent"
    /\ arrivals' = IF deciding THEN Append(arrivals, "done") ELSE arrivals
    /\ UNCHANGED <<routerVars, done, quit, lres, ret, branch, grace, elapsed, ctxErr,
                   ready, drain, rq, pureVars>>

\* done <- server.ListenAndServe(): handed to the controller if it is blocked
\* in the select, buffered otherwise.
ListenerSend ==
    /\ proc = "up"
    /\ lsn = "stopped"
    /\ IF cpc = "blocked"
       THEN /\ cpc' = "recvDone"
            /\ UNCHANGED done
       ELSE /\ Len(done) < ChanCap
            /\ done' = Append(done, lres)
            /\ UNCHANGED cpc
    /\ lsn' = "sent"
    /\ arrivals' = IF deciding THEN Append(arrivals, "done") ELSE arrivals
    /\ UNCHANGED <<routerVars, quit, lres, ret, branch, grace, elapsed, ctxErr,
                   ready, drain, rq, pureVars>>

\* SIGINT or SIGTERM after signal.Notify and before ListenAndServe returns:
\* handed to the controller if it is blocked in the select, buffered if quit
\* has room, dropped otherwise.
Signal ==
    /\ proc = "up"
    /\ started
    /\ cpc # "returned"
    /\ IF cpc = "blocked"
       THEN /\ cpc' = "recvQuit"
            /\ arrivals' = Append(arrivals, "quit")
            /\ UNCHANGED quit
       ELSE IF Len(quit) < ChanCap
       THEN /\ quit' = Append(quit, "SIGTERM")
            /\ arrivals' = IF deciding THEN Append(arrivals, "quit") ELSE arrivals
            /\ UNCHANGED cpc
       ELSE UNCHANGED <<quit, arrivals, cpc>>
    /\ UNCHANGED <<routerVars, done, lsn, lres, ret, branch, grace, elapsed, ctxErr,
                   ready, drain, rq, pureVars>>

\* The cases of the select that can proceed.
readyCases == {c \in {"done", "quit"} : IF c = "done" THEN done # <<>> ELSE quit # <<>>}

\* Mutant: the select prefers the done case whenever it can proceed, and
\* otherwise falls into the quit case without a signal.
SelectNoWait ==
    /\ proc = "up"
    /\ cpc = "select"
    /\ ready' = readyCases
    /\ IF done # <<>>
       THEN /\ cpc' = "recvDone"
            /\ done' = Tail(done)
            /\ UNCHANGED quit
       ELSE /\ cpc' = "recvQuit"
            /\ quit' = <<>>
            /\ UNCHANGED done
    /\ UNCHANGED <<routerVars, lsn, lres, ret, branch, grace, elapsed, ctxErr,
                   arrivals, drain, rq, pureVars>>

\* The controller reaches the select: it takes one of the cases that can
\* proceed, any of them, or blocks when none can.
Select ==
    /\ proc = "up"
    /\ cpc = "select"
    /\ ready' = readyCases
    /\ IF readyCases = {}
       THEN /\ cpc' = "blocked"
            /\ UNCHANGED <<done, quit>>
       ELSE \E c \in readyCases :
               IF c = "done"
               THEN /\ cpc' = "recvDone"
                    /\ done' = Tail(done)
                    /\ UNCHANGED quit
               ELSE /\ cpc' = "recvQuit"
                    /\ quit' = Tail(quit)
                    /\ UNCHANGED done
    /\ UNCHANGED <<routerVars, lsn, lres, ret, branch, grace, elapsed, ctxErr,
                   arrivals, drain, rq, pureVars>>

\* Mutant: ErrServerClosed is returned like any other error.
doneCaseAnyError(err) == err

\* case err := <-done: a result other than nil and ErrServerClosed is logged
\* and returned; otherwise nil is returned.
doneCase(err) ==
    IF err # Nil /\ err # ErrServerClosed THEN err ELSE Nil

DoneCase ==
    /\ proc = "up"
    /\ cpc = "recvDone"
    /\ branch' = "done"
    /\ ret' = doneCase(lres)
    /\ cpc' = "returned"
    /\ UNCHANGED <<routerVars, done, quit, lsn, lres, grace, elapsed, ctxErr,
                   arrivals, ready, drain, rq, pureVars>>

\* The shutdown context: expired once grace ticks have passed.
expired(t) == t >= grace

\* Mutant: Shutdown waits for the requests whatever the context says.
ShutdownIgnoreContext(err, active) == IF active = {} THEN Nil ELSE Pending

\* Mutant: the server is closed at once, without waiting for the requests.
ShutdownNoWait(err, active) == Nil

\* server.Shutdown(ctx) as its contract has it: nil once no connection is
\* active, ctx.Err() if the context expired while one was, waiting otherwise.
Shutdown(err, active) ==
    IF err # Nil THEN err
    ELSE IF active = {} THEN Nil
    ELSE Pending

\* Mutant: the error of Shutdown is logged and dropped.
quitCaseDropError(err) == Nil

\* if err := server.Shutdown(ctx); err != nil { return err }; return nil
quitCase(err) == IF err # Nil THEN err ELSE Nil

\* ctx.Err() after t ticks, as Shutdown sees it: the deadline counts against
\* the shutdown only while a request is still being served.
ctxErrAt(t) == IF expired(t) /\ inflight # {} THEN DeadlineExceeded ELSE Nil

\* case <-quit: the shutdown context is created and server.Shutdown begins:
\* the listener is closed, so server.ListenAndServe returns ErrServerClosed.
QuitCase ==
    /\ proc = "up"
    /\ cpc = "recvQuit"
    /\ branch' = "quit"
    /\ cpc' = "shutdown"
    /\ elapsed' = 0
    /\ ctxErr' = ctxErrAt(0)
    /\ drain' = inflight
    /\ IF lsn = "listening"
       THEN lsn' = "stopped" /\ lres' = ErrServerClosed
       ELSE UNCHANGED <<lsn, lres>>
    /\ UNCHANGED <<routerVars, done, quit, ret, grace, arrivals, ready,
                   rq, pureVars>>

\* One tick of the shutdown context's timer while Shutdown waits.
Tick ==
    /\ proc = "up"
    /\ cpc = "shutdown"
    /\ ctxErr = Nil
    /\ elapsed < grace
    /\ elapsed' = elapsed + 1
    /\ ctxErr' = ctxErrAt(elapsed + 1)
    /\ UNCHANGED <<routerVars, cpc, done, quit, lsn, lres, ret, branch, grace,
                   histVars, rq, pureVars>>

\* server.Shutdown returns and with it ListenAndServe.
ShutdownReturn ==
    /\ proc = "up"
    /\ cpc = "shutdown"
    /\ Shutdown(ctxErr, inflight) # Pending
    /\ ret' = quitCase(Shutdown(ctxErr, inflight))
    /\ cpc' = "returned"
    /\ UNCHANGED <<routerVars, done, quit, lsn, lres, branch, grace, elapsed, ctxErr,
                   arrivals, ready, drain, rq, pureVars>>

\* The lifecycle state, read off the controller's position.
State ==
    CASE cpc = "idle" -> "NotStarted"
      [] cpc \in {"select", "blocked", "recvDone", "recvQuit"} -> "Running"
      [] cpc = "shutdown" -> "ShuttingDown"
      [] cpc = "returned" -> "Stopped"

----
\* The JSON binder: decode and the encoding/json Decoder it drives.
maxBytes == 1048576

\* fmt's %d for the numbers the messages carry.
FormatInt(n) ==
    CASE n = 1048576 -> "1048576"
      [] n = 24 -> "24"
      [] n = 1048575 -> "1048575"
      [] n = 1048577 -> "1048577"
      [] OTHER -> "0"

\* fmt's %q.
Quote(s) == <<"\"", s, "\"">>

\* A request body is the sequence of its parts, each with its size in bytes:
\* "ws" a run of white space, "object" a complete well-formed JSON object with
\* the members listed, "string" a complete JSON string, "cut" the well-formed
\* beginning of a value that the end of the body cuts short, "bad" bytes of
\* which the first already breaks the JSON grammar, "fail" the point where
\* the read of the body fails with an error of the connection (the read
\* deadline has passed, the connection was reset) and no byte is delivered.
Item(kind, size, members) == [kind |-> kind, size |-> size, members |-> members]

Member(key, type, val) == [key |-> key, type |-> type, val |-> val]

MemberLists ==
    {<<>>,
     <<Member("full_name", "string", "bob")>>,
     <<Member("full_name", "string", "BOB"), Member("age", "number", 5)>>,
     <<Member("full_name", "string", "bob"), Member("age", "number", 5)>>,
     <<Member("extra", "number", 1)>>,
     <<Member("age", "string", "x")>>,
     <<Member("full_name", "string", "bob"), Member("extra", "number", 1)>>,
     <<Member("age", "string", "x"), Member("extra", "number", 1)>>,
     <<Member("extra", "number", 1), Member("age", "string", "x")>>}

Sizes == {24, 1048575, 1048577}

Items ==
    {Item("ws", n, <<>>) : n \in Sizes}
    \cup {Item("object", 24, ms) : ms \in MemberLists}
    \cup {Item("object", n, <<Member("full_name", "string", "bob"), Member("age", "number", 5)>>) :
            n \in Sizes}
    \cup {Item("string", 24, <<>>)}
    \cup {Item("cut", n, <<>>) : n \in {24, 1048577}}
    \cup {Item("bad", 24, <<>>)}
    \cup {Item("fail", 0, <<>>)}

RECURSIVE SizeUpTo(_, _)
SizeUpTo(b, i) == IF i < 1 THEN 0 ELSE b[i].size + SizeUpTo(b, i - 1)

BodyLen(b) == SizeUpTo(b, Len(b))

\* Decode targets.  T is a struct { Name string `json:"full_name"
\* validate:"required,lowercase"`; Age int `validate:"min=3"` }, N is the same
\* struct with a Normalize method, Q is a struct { Ids []string `query:"ids"`;
\* Name string `query:"name" validate:"required,lowercase"` } and QN is Q with
\* a Normalize method.  ptr is whether a non-nil pointer was passed.
Target(type, ptr) == [type |-> type, ptr |-> ptr]

StructN == [name |-> "pkg.N", fields |-> StructT.fields]

StructQ ==
    [name |-> "pkg.Q",
     fields |-> <<Field("Ids", <<"">>, <<"ids">>),
                  Field("Name", <<"">>, <<"name">>)>>]

StructQN == [name |-> "pkg.QN", fields |-> StructQ.fields]

TypeOf(type) ==
    CASE type = "T" -> StructT
      [] type = "N" -> StructN
      [] type = "Q" -> StructQ
      [] type = "QN" -> StructQN
      [] type = "struct{}" -> [name |-> "struct {}", fields |-> <<>>]

\* v.(Normalizer)
IsNormalizer(type) == type \in {"N", "QN"}

\* The JSON type a field takes.
FieldType(name) ==
    CASE name = "Name" -> "string"
      [] name = "Age" -> "number"
      [] OTHER -> "array"

\* The zero value of a target.
ZeroValue == [Name |-> "", Age |-> 0, Ids |-> <<>>]

\* encoding/json: the name a field has in JSON, and the field a key selects
\* (exact name first, else a case-insensitive match).
JsonName(f) == IF f.json[1] # "" THEN f.json[1] ELSE f.name

FieldFor(t, key) ==
    LET exact == {i \in DOMAIN t.fields : JsonName(t.fields[i]) = key}
        fold == {i \in DOMAIN t.fields : ToLower(JsonName(t.fields[i])) = ToLower(key)}
    IN IF exact # {} THEN CHOOSE i \in exact : TRUE
       ELSE IF fold # {} THEN CHOOSE i \in fold : TRUE
       ELSE 0

\* The errors of the JSON engine and of the body reader.
JErr(type, text, field, offset, limit) ==
    [type |-> type, text |-> text, field |-> field, offset |-> offset, limit |-> limit]

NoJErr == JErr("nil", <<>>, "", 0, 0)
ErrEOF == JErr("io.EOF", <<"EOF">>, "", 0, 0)
ErrUnexpectedEOF == JErr("io.ErrUnexpectedEOF", <<"unexpected EOF">>, "", 0, 0)
MaxBytesError == JErr("*http.MaxBytesError", <<"http: request body too large">>, "", 0, maxBytes)
ErrRead == JErr("*net.OpError", <<"read: i/o timeout">>, "", 0, 0)
SyntaxError(off) == JErr("*json.SyntaxError", <<"invalid character">>, "", off, 0)
InvalidUnmarshalError == JErr("*json.InvalidUnmarshalError", <<"json: Unmarshal(non-pointer)">>, "", 0, 0)
UnknownFieldError(key) == JErr("*errors.errorString", <<"json: unknown field ", Quote(key)>>, "", 0, 0)
UnmarshalTypeError(field, off) ==
    JErr("*json.UnmarshalTypeError", <<"json: cannot unmarshal">>, field, off, 0)

\* http.MaxBytesReader(w, r.Body, maxBytes): the bytes the decoder gets, and
\* whether the read after them fails with MaxBytesError instead of io.EOF.
Delivered(b) == IF BodyLen(b) > maxBytes THEN maxBytes ELSE BodyLen(b)

TooLarge(b) == BodyLen(b) > maxBytes

\* The first part from i on that is not white space, Len(b) + 1 if none.
RECURSIVE SkipSpace(_, _)
SkipSpace(b, i) ==
    IF i > Len(b) THEN i
    ELSE IF b[i].kind = "ws" THEN SkipSpace(b, i + 1)
    ELSE i

\* Decoder.readValue from part i: the decoder scans what it was delivered
\* and asks the reader for more only when the scanned bytes neither end a
\* value nor break the grammar.
readValue(b, i) ==
    LET j == SkipSpace(b, i)
        endOf == SizeUpTo(b, j)
        startOf == SizeUpTo(b, j - 1)
    IN IF j > Len(b)
       THEN [err |-> IF TooLarge(b) THEN MaxBytesError ELSE ErrEOF, at |-> j]
       ELSE IF b[j].kind = "bad"
       THEN [err |-> IF startOf < Delivered(b) THEN SyntaxError(startOf + 1) ELSE MaxBytesError,
             at |-> j]
       ELSE IF b[j].kind = "cut"
       THEN [err |-> IF TooLarge(b) THEN MaxBytesError ELSE ErrUnexpectedEOF, at |-> j]
       ELSE IF b[j].kind = "fail"
       THEN [err |-> IF startOf <= maxBytes THEN ErrRead ELSE MaxBytesError, at |-> j]
       ELSE [err |-> IF endOf <= Delivered(b) THEN NoJErr ELSE MaxBytesError, at |-> j]

\* decodeState.object: the members are stored in document order; the first
\* unknown key or mismatched type is the error saved and returned.
RECURSIVE unmarshalMembers(_, _, _, _, _)
unmarshalMembers(t, ms, i, v, saved) ==
    IF i > Len(ms) THEN [err |-> saved, v |-> v]
    ELSE LET m == ms[i]
             f == FieldFor(t, m.key)
         IN IF f = 0
            THEN unmarshalMembers(t, ms, i + 1, v,
                     IF saved.type = "nil" THEN UnknownFieldError(m.key) ELSE saved)
            ELSE IF FieldType(t.fields[f].name) # m.type
            THEN unmarshalMembers(t, ms, i + 1, v,
                     IF saved.type = "nil"
                     THEN UnmarshalTypeError(JsonName(t.fields[f]), i)
                     ELSE saved)
            ELSE unmarshalMembers(t, ms, i + 1,
                                  [v EXCEPT ![t.fields[f].name] = m.val], saved)

\* decodeState.unmarshal of the value read into the target.
unmarshal(target, item, v) ==
    IF ~target.ptr THEN [err |-> InvalidUnmarshalError, v |-> v]
    ELSE IF item.kind = "string"
    THEN [err |-> UnmarshalTypeError("", item.size), v |-> v]
    ELSE unmarshalMembers(TypeOf(target.type), item.members, 1, v, NoJErr)

\* Decoder.Decode(v) from part i.
DecoderDecode(b, i, target, v) ==
    LET rv == readValue(b, i)
    IN IF rv.err.type # "nil" THEN [err |-> rv.err, v |-> v, next |-> rv.at]
       ELSE LET u == unmarshal(target, b[rv.at], v)
            IN [err |-> u.err, v |-> u.v, next |-> rv.at + 1]

\* newBindingError
newBindingError(msg) == <<ErrElem("Binding", msg, {}, "", <<>>)>>

\* The outcome of a binder or of the pipeline: nil, an error, or a panic.
Outcome(type, err, v) == [type |-> type, err |-> err, v |-> v]

\* strings.HasPrefix(err.Error(), "json: unknown field ")
HasUnknownFieldPrefix(e) == Len(e.text) > 0 /\ e.text[1] = "json: unknown field "

\* Mutant: decode without the check for an unknown field.
decodeErrorNoUnknownField(e, v) ==
    IF e.type = "*json.InvalidUnmarshalError" THEN Outcome("panic", <<>>, v)
    ELSE IF e.type = "io.EOF"
    THEN Outcome("err", newBindingError(<<"body must be valid JSON">>), v)
    ELSE IF e.type = "io.ErrUnexpectedEOF"
    THEN Outcome("err", newBindingError(<<"body contains badly-formed JSON">>), v)
    ELSE IF e.type = "*http.MaxBytesError"
    THEN Outcome("err", newBindingError(<<"body must not exceed ", FormatInt(e.limit), " bytes">>), v)
    ELSE IF e.type = "*json.SyntaxError"
    THEN Outcome("err", newBindingError(<<"body contains badly-formed JSON and can not be parsed">>), v)
    ELSE IF e.type = "*json.UnmarshalTypeError"
    THEN Outcome("err", newBindingError(<<"body contains incorrect JSON type for field ",
                                          Quote(e.field)>>), v)
    ELSE Outcome("err", <<ErrElem("Other", e.text, {}, "", <<>>)>>, v)

\* The classification of decode after decoder.Decode(v) failed with e.
decodeError(e, v) ==
    IF e.type = "*json.InvalidUnmarshalError" THEN Outcome("panic", <<>>, v)
    ELSE IF e.type = "io.EOF"
    THEN Outcome("err", newBindingError(<<"body must be valid JSON">>), v)
    ELSE IF e.type = "io.ErrUnexpectedEOF"
    THEN Outcome("err", newBindingError(<<"body contains badly-formed JSON">>), v)
    ELSE IF e.type = "*http.MaxBytesError"
    THEN Outcome("err", newBindingError(<<"body must not exceed ", FormatInt(e.limit), " bytes">>), v)
    ELSE IF HasUnknownFieldPrefix(e)
    THEN Outcome("err", newBindingError(<<"body contains unknown keys ", e.text[2]>>), v)
    ELSE IF e.type = "*json.SyntaxError"
    THEN Outcome("err", newBindingError(<<"body contains badly-formed JSON and can not be parsed">>), v)
    ELSE IF e.type = "*json.UnmarshalTypeError"
    THEN IF e.field # ""
         THEN Outcome("err", newBindingError(<<"body contains incorrect JSON type for field ",
                                               Quote(e.field)>>), v)
         ELSE Outcome("err",
                  newBindingError(<<"body contains incorrect JSON value that was not appropriate for the request body (at character ",
                                    FormatInt(e.offset), ")">>), v)
    ELSE Outcome("err", <<ErrElem("Other", e.text, {}, "", <<>>)>>, v)

\* Mutant: decode without the second Decode.
decodeFirstValueOnly(b, target, v) ==
    LET first == DecoderDecode(b, 1, target, v)
    IN IF first.err.type = "nil" THEN Outcome("nil", <<>>, first.v)
       ELSE decodeError(first.err, first.v)

\* decode: the first value is decoded into v; on success a second Decode
\* must meet the end of the body.
decode(b, target, v) ==
    LET first == DecoderDecode(b, 1, target, v)
    IN IF first.err.type = "nil"
       THEN IF DecoderDecode(b, first.next, Target("struct{}", TRUE), ZeroValue).err.type # "io.EOF"
            THEN Outcome("err", newBindingError(<<"body must only contain a single JSON value">>),
                         first.v)
            ELSE Outcome("nil", <<>>, first.v)
       ELSE decodeError(first.err, first.v)

----
\* The query binder: decodeURL and the mapstructure decoder it drives.

\* r.URL.Query(): a set of <<key, values>> pairs, the values of a key in the
\* order they have in the query string; every key has at least one value.
Queries ==
    {{},
     {<<"name", <<"bob">>>>},
     {<<"name", <<"BOB">>>>},
     {<<"ids", <<"1">>>>},
     {<<"ids", <<"1", "2">>>>, <<"name", <<"bob">>>>},
     {<<"ids", <<"2", "1">>>>, <<"name", <<"BOB">>>>},
     {<<"ids", <<"1">>>>, <<"name", <<"bob", "al">>>>},
     {<<"name", <<"bob", "al">>>>, <<"page", <<"1">>>>}}

\* A value of the params map: a string, or a []string.
String(s) == [kind |-> "string", val |-> <<s>>]

Strings(ss) == [kind |-> "[]string", val |-> ss]

\* Mutant: every key keeps the list of its values.
flattenAsLists(values) == Strings(values)

\* The body of the loop of decodeURL over the query.
flatten(values) ==
    IF Len(values) = 1 THEN String(values[1]) ELSE Strings(values)

\* The params map decodeURL hands to the decoder.
paramsOf(query) == {<<p[1], flatten(p[2])>> : p \in query}

\* A text as the sequence of its tokens: a token between single quotes, a run
\* of white space, or other text.
Tok(kind, s) == [kind |-> kind, s |-> s]

\* mapstructure's message for one field: 'name' and the explanation.
FieldLine(name, expected, got) ==
    <<Tok("quoted", name), Tok("space", " "), Tok("text", "expected type"), Tok("space", " "),
      Tok("quoted", expected), Tok("text", ", got unconvertible type"), Tok("space", " "),
      Tok("quoted", got)>>

\* mapstructure with TagName "query": the name a field is decoded under, and
\* the key of the input that supplies it (exact first, else case-insensitive).
QueryName(f) == IF f.query[1] # "" THEN f.query[1] ELSE f.name

KeyFor(params, name) ==
    IF MapHas(params, name) THEN <<name>>
    ELSE LET fold == {k \in MapKeys(params) : ToLower(k) = ToLower(name)}
         IN IF fold # {} THEN <<CHOOSE k \in fold : TRUE>> ELSE <<>>

\* The Go type of a field of Q.
GoType(name) == IF name = "Ids" THEN "[]string" ELSE "string"

\* Decoder.Decode(params) with WeaklyTypedInput, field by field in the order
\* of the struct: a string becomes a one-element slice where a slice is
\* wanted; a slice of strings cannot become a string.
RECURSIVE mapstructFields(_, _, _, _, _)
mapstructFields(t, params, i, v, lines) ==
    IF i > Len(t.fields) THEN [lines |-> lines, v |-> v]
    ELSE LET f == t.fields[i]
             k == KeyFor(params, QueryName(f))
         IN IF k = <<>> THEN mapstructFields(t, params, i + 1, v, lines)
            ELSE LET in == MapGet(params, k[1])
                 IN IF GoType(f.name) = "[]string"
                    THEN mapstructFields(t, params, i + 1, [v EXCEPT ![f.name] = in.val], lines)
                    ELSE IF in.kind = "string"
                    THEN mapstructFields(t, params, i + 1, [v EXCEPT ![f.name] = in.val[1]], lines)
                    ELSE mapstructFields(t, params, i + 1, v,
                             Append(lines, FieldLine(QueryName(f), GoType(f.name), in.kind)))

\* strings.TrimSpace on a token text.
RECURSIVE TrimLeft(_)
TrimLeft(toks) ==
    IF toks # <<>> /\ toks[1].kind = "space" THEN TrimLeft(Tail(toks)) ELSE toks

RECURSIVE TrimRight(_)
TrimRight(toks) ==
    IF toks # <<>> /\ toks[Len(toks)].kind = "space"
    THEN TrimRight(SubSeq(toks, 1, Len(toks) - 1))
    ELSE toks

TrimSpace(toks) == TrimRight(TrimLeft(toks))

\* The first token between single quotes, 0 if none.
RECURSIVE FirstQuoted(_, _)
FirstQuoted(toks, i) ==
    IF i > Len(toks) THEN 0
    ELSE IF toks[i].kind = "quoted" THEN i
    ELSE FirstQuoted(toks, i + 1)

\* Mutant: the field is not taken out of the message; every line goes under
\* the empty key.
extractNothing(input) == <<"", input>>

\* extractAndRemove: the value between the first single quotes, and the
\* input without it.
extractAndRemove(input) ==
    LET i == FirstQuoted(input, 1)
    IN IF i > 0
       THEN <<input[i].s,
              TrimSpace(SubSeq(input, 1, i - 1) \o SubSeq(input, i + 1, Len(input)))>>
       ELSE <<"", input>>

\* mapstructFieldErrors: one map entry for each line of the message.
RECURSIVE mapstructFieldErrors(_, _, _)
mapstructFieldErrors(lines, i, m) ==
    IF i > Len(lines) THEN m
    ELSE LET fm == extractAndRemove(lines[i])
         IN mapstructFieldErrors(lines, i + 1, MapPut(m, fm[1], fm[2]))

\* decodeURL: mapstructure.NewDecoder refuses a Result that is not a pointer;
\* a failed Decode is returned with the field map of its message.
decodeURL(query, target, v) ==
    IF ~target.ptr
    THEN Outcome("err", <<ErrElem("Binding", <<"result must be a pointer">>, {}, "", <<>>)>>, v)
    ELSE LET d == mapstructFields(TypeOf(target.type), paramsOf(query), 1, v, <<>>)
         IN IF d.lines # <<>>
            THEN Outcome("err",
                         <<ErrElem("Binding", <<"Query Params Decoding Failed">>,
                                   mapstructFieldErrors(d.lines, 1, {}), "", <<>>)>>,
                         d.v)
            ELSE Outcome("nil", <<>>, d.v)

----
\* The Decode/DecodeURL pipeline of Context and the validator behind
\* valid.Struct.

\* The validate tags of a field: <<rule, parameter>> in the order written.
RulesOf(name) ==
    CASE name = "Name" -> <<<<"required", <<>>>>, <<"lowercase", <<>>>>>>
      [] name = "Age" -> <<<<"min", <<"3">>>>>>
      [] OTHER -> <<>>

\* Whether a value passes a rule.
Passes(rule, val) ==
    CASE rule = "required" -> val # ""
      [] rule = "lowercase" -> val = ToLower(val)
      [] rule = "min" -> val >= 3
      [] OTHER -> TRUE

\* The first rule of a field that its value fails, 0 if none.
RECURSIVE FirstFailed(_, _, _)
FirstFailed(rules, val, i) ==
    IF i > Len(rules) THEN 0
    ELSE IF ~Passes(rules[i][1], val) THEN i
    ELSE FirstFailed(rules, val, i + 1)

\* validate.Struct: the violations in the order of the fields, one for a field.
RECURSIVE validateStruct(_, _, _)
validateStruct(t, v, i) ==
    IF i > Len(t.fields) THEN <<>>
    ELSE LET name == t.fields[i].name
             k == FirstFailed(RulesOf(name), v[name], 1)
         IN (IF k = 0 THEN <<>>
             ELSE <<Violation(name, RulesOf(name)[k][1], RulesOf(name)[k][2])>>)
            \o validateStruct(t, v, i + 1)

\* valid.Struct after cacheTypeFields: nil, or Errors{cacheKey, violations}.
validStruct(type, v) ==
    LET vs == validateStruct(TypeOf(type), v, 1)
    IN IF vs = <<>> THEN <<>>
       ELSE <<ErrElem("Validation", "", {}, structCacheKey(TypeOf(type)), vs)>>

\* The Normalize method of N and QN: the name is lowercased.
Normalize(v) == [v EXCEPT !.Name = ToLower(@)]

\* Mutant: the pipeline validates before it normalizes.
pipelineValidateFirst(bound, type) ==
    LET err == validStruct(type, bound.v)
        v == IF IsNormalizer(type) THEN Normalize(bound.v) ELSE bound.v
    IN IF bound.type # "nil"
       THEN [out |-> bound, phases |-> <<"bind">>, seen |-> ZeroValue, cached |-> FALSE]
       ELSE [out |-> Outcome(IF err = <<>> THEN "nil" ELSE "err", err, v),
             phases |-> <<"bind", "validate">> \o (IF IsNormalizer(type) THEN <<"normalize">> ELSE <<>>),
             seen |-> bound.v, cached |-> TRUE]

\* Context.Decode and Context.DecodeURL after the binder returned bound:
\* a binding error (or panic) ends the call; else Normalize runs if the target
\* has it, then valid.Struct.  phases is the order of what ran, seen the
\* value handed to the validator.
pipeline(bound, type) ==
    LET v == IF IsNormalizer(type) THEN Normalize(bound.v) ELSE bound.v
        err == validStruct(type, v)
    IN IF bound.type # "nil"
       THEN [out |-> bound, phases |-> <<"bind">>, seen |-> ZeroValue, cached |-> FALSE]
       ELSE [out |-> Outcome(IF err = <<>> THEN "nil" ELSE "err", err, v),
             phases |-> <<"bind">> \o (IF IsNormalizer(type) THEN <<"normalize">> ELSE <<>>)
                        \o <<"validate">>,
             seen |-> v, cached |-> TRUE]

\* Context.Decode
ContextDecode(b, target) == pipeline(decode(b, target, ZeroValue), target.type)

\* Context.DecodeURL
ContextDecodeURL(query, target) == pipeline(decodeURL(query, target, ZeroValue), target.type)

\* A request as the handler's call of Decode or DecodeURL sees it.
Request(src, b, query, target) == [src |-> src, body |-> b, query |-> query, target |-> target]

NoRequest == Request("none", <<>>, {}, Target("T", TRUE))

NoLog == [phases |-> <<>>, seen |-> ZeroValue, v |-> ZeroValue, cached |-> FALSE]

----
\* Config and Config.Validate.  A port is the sequence of its characters.
Config(port, rt, wt, it, gs, mhb) ==
    [Port |-> port, ReadTimeout |-> rt, WriteTimeout |-> wt, IdleTimeout |-> it,
     GracefulShutdown |-> gs, MaxHeaderBytes |-> mhb]

DefaultPort == <<"8", "0", "8", "0">>

Digits == <<"0", "1", "2", "3", "4", "5", "6", "7", "8", "9">>

IsDigit(c) == \E d \in DOMAIN Digits : Digits[d] = c

DigitValue(c) == (CHOOSE d \in DOMAIN Digits : Digits[d] = c) - 1

\* The value of a run of digits.
RECURSIVE DigitsValue(_, _)
DigitsValue(cs, n) ==
    IF n = 0 THEN 0 ELSE DigitsValue(cs, n - 1) * 10 + DigitValue(cs[n])

\* strconv.Atoi: an optional sign and at least one digit, nothing else.
Atoi(cs) ==
    LET signed == cs # <<>> /\ cs[1] \in {"+", "-"}
        ds == IF signed THEN Tail(cs) ELSE cs
    IN IF ds = <<>> \/ \E i \in DOMAIN ds : ~IsDigit(ds[i])
       THEN [ok |-> FALSE, n |-> 0]
       ELSE [ok |-> TRUE,
             n |-> IF signed /\ cs[1] = "-" THEN 0 - DigitsValue(ds, Len(ds))
                   ELSE DigitsValue(ds, Len(ds))]

\* isValidPort: a leading colon is stripped before the number is parsed.
isValidPort(port) ==
    LET p == IF port # <<>> /\ port[1] = ":" THEN Tail(port) ELSE port
    IN Atoi(p).ok /\ Atoi(p).n > 0 /\ Atoi(p).n <= 65535

\* Config.Validate: the clamps in the order of the code, then the final
\* checks, which return the first error.
Validate(c) ==
    LET c1 == IF c.Port = <<>> THEN [c EXCEPT !.Port = DefaultPort] ELSE c
        c2 == IF ~isValidPort(c1.Port) THEN [c1 EXCEPT !.Port = DefaultPort] ELSE c1
        c3 == IF c2.ReadTimeout < 0 THEN [c2 EXCEPT !.ReadTimeout = 0] ELSE c2
        c4 == IF c3.WriteTimeout < 0 THEN [c3 EXCEPT !.WriteTimeout = 0] ELSE c3
        c5 == IF c4.IdleTimeout < 0 THEN [c4 EXCEPT !.IdleTimeout = 0] ELSE c4
        c6 == IF c5.GracefulShutdown < 0 THEN [c5 EXCEPT !.GracefulShutdown = 10] ELSE c5
        c7 == IF c6.MaxHeaderBytes <= 0 THEN [c6 EXCEPT !.MaxHeaderBytes = 1048576] ELSE c6
    IN [c |-> c7,
        err |-> IF c7.ReadTimeout < 0 THEN "ReadTimeout cannot be negative"
                ELSE IF c7.WriteTimeout < 0 THEN "WriteTimeout cannot be negative"
                ELSE IF c7.IdleTimeout < 0 THEN "IdleTimeout cannot be negative"
                ELSE IF c7.GracefulShutdown < 0 THEN "GracefulShutdown timeout cannot be negative"
                ELSE IF c7.MaxHeaderBytes <= 0 THEN "MaxHeaderBytes must be positive"
                ELSE Nil]

\* The configurations the loader can hand over.
Ports ==
    {<<>>, DefaultPort, <<":", "8", "0", "8", "0">>, <<"0">>, <<"1">>,
     <<"6", "5", "5", "3", "5">>, <<"6", "5", "5", "3", "6">>, <<"a", "b", "c">>,
     <<"-", "1">>, <<"8", "0", "x">>, <<":">>}

Durations == {-1, 0, 5}

HeaderSizes == {-1, 0, 1, 1048576}

Configs ==
    {Config(p, rt, wt, it, gs, mhb) :
        p \in Ports, rt \in Durations, wt \in Durations, it \in Durations,
        gs \in Durations, mhb \in HeaderSizes}

NoConfig ==
    [pc |-> "none", in |-> Config(DefaultPort, 0, 0, 0, 10, 1048576),
     out |-> Config(DefaultPort, 0, 0, 0, 10, 1048576), err |-> Nil]

----
\* Values of the variables a specification does not use.
NoCall == [op |-> "none", pattern |-> "", started |-> FALSE]

RouterNew ==
    /\ handlers = {}
    /\ mwares = <<>>
    /\ mux = {}
    /\ proc = "up"
    /\ lastCall = NoCall

CtrlNew ==
    /\ cpc = "idle"
    /\ done = <<>>
    /\ quit = <<>>
    /\ lsn = "off"
    /\ lres = Nil
    /\ ret = Nil
    /\ branch = "none"
    /\ elapsed = 0
    /\ ctxErr = Nil
    /\ arrivals = <<>>
    /\ ready = {}
    /\ drain = {}

PureIdle ==
    /\ fieldCache = cacheTypeFields({}, StructT)
    /\ tasks = <<>>
    /\ din = [res |-> Result("nil", <<>>, ""), conn |-> "open"]
    /\ dout = <<>>
    /\ dpc = "idle"
    /\ dreq = NoRequest
    /\ dlog = NoLog
    /\ cfg = NoConfig

----
\* Dispatch of one request: handleRequest applied to every outcome of the
\* handler chain, on an open and on a lost connection.  valid.Struct has
\* cached the type of every validation error it returned.
InitDispatch ==
    /\ RouterNew
    /\ CtrlNew
    /\ grace = 0
    /\ rq = <<>>
    /\ fieldCache = cacheTypeFields(cacheTypeFields({}, StructT), StructU)
    /\ tasks = <<>>
    /\ din \in [res : Results, conn : {"open", "gone"}]
    /\ dout = <<>>
    /\ dpc = "call"
    /\ dreq = NoRequest
    /\ dlog = NoLog
    /\ cfg = NoConfig

Dispatch ==
    /\ dpc = "call"
    /\ dout' = handleRequest(din.conn, din.res)
    /\ dpc' = "done"
    /\ UNCHANGED <<routerVars, ctrlVars, histVars, rq, fieldCache, tasks, din, dreq, dlog, cfg>>

NextDispatch == Dispatch

SpecDispatch == InitDispatch /\ [][NextDispatch]_vars

----
\* Decoding: a handler calls ctx.Decode or ctx.DecodeURL on its request and
\* returns what the call returned; handleRequest answers.
MaxItems == 2      \* parts of a request body

Bodies ==
    {b \in SeqsUpTo(Items, MaxItems) :
        \A i \in DOMAIN b : b[i].kind \in {"cut", "fail"} => i = Len(b)}

JsonTargets == {Target("T", TRUE), Target("N", TRUE), Target("T", FALSE)}

QueryTargets == {Target("Q", TRUE), Target("QN", TRUE), Target("Q", FALSE)}

Requests ==
    {Request("json", b, {}, t) : b \in Bodies, t \in JsonTargets}
    \cup {Request("query", <<>>, q, t) : q \in Queries, t \in QueryTargets}

InitDecode ==
    /\ RouterNew
    /\ CtrlNew
    /\ grace = 0
    /\ rq = <<>>
    /\ fieldCache = {}
    /\ tasks = <<>>
    /\ din = [res |-> Result("nil", <<>>, ""), conn |-> "open"]
    /\ dout = <<>>
    /\ dpc = "decode"
    /\ dreq \in Requests
    /\ dlog = NoLog
    /\ cfg = NoConfig

\* The handler's call of ctx.Decode(v) or ctx.DecodeURL(v); valid.Struct
\* caches the field names of the target's type when it is reached.
DecodeCall ==
    /\ dpc = "decode"
    /\ LET p == IF dreq.src = "json"
                THEN ContextDecode(dreq.body, dreq.target)
                ELSE ContextDecodeURL(dreq.query, dreq.target)
       IN /\ din' = [res |-> Result(p.out.type, p.out.err,
                                    IF p.out.type = "panic" THEN "json: Unmarshal(non-pointer)" ELSE ""),
                     conn |-> "open"]
          /\ dlog' = [phases |-> p.phases, seen |-> p.seen, v |-> p.out.v, cached |-> p.cached]
          /\ fieldCache' = IF p.cached
                           THEN cacheTypeFields(fieldCache, TypeOf(dreq.target.type))
                           ELSE fieldCache
    /\ dpc' = "call"
    /\ UNCHANGED <<routerVars, ctrlVars, histVars, rq, tasks, dout, dreq, cfg>>

NextDecode ==
    \/ DecodeCall
    \/ Dispatch

SpecDecode == InitDecode /\ [][NextDecode]_vars

----
\* Configuration: a loaded Config is validated, then the address the server
\* listens on is built from it.
InitConfig ==
    /\ RouterNew
    /\ CtrlNew
    /\ grace = 0
    /\ rq = <<>>
    /\ fieldCache = {}
    /\ tasks = <<>>
    /\ din = [res |-> Result("nil", <<>>, ""), conn |-> "open"]
    /\ dout = <<>>
    /\ dpc = "idle"
    /\ dreq = NoRequest
    /\ dlog = NoLog
    /\ cfg \in {[pc |-> "loaded", in |-> c, out |-> c, err |-> Nil] : c \in Configs}

ConfigValidate ==
    /\ cfg.pc = "loaded"
    /\ cfg' = [cfg EXCEPT !.pc = "validated",
                           !.out = Validate(cfg.in).c,
                           !.err = Validate(cfg.in).err]
    /\ UNCHANGED <<routerVars, ctrlVars, histVars, rq, fieldCache, tasks, din, dout, dpc, dreq, dlog>>

NextConfig == ConfigValidate

SpecConfig == InitConfig /\ [][NextConfig]_vars

----
\* Validation: goroutines call valid.Struct on values of several struct
\* types, and the errors returned are labelled by ExtractFieldErrors.
\* fieldCache is a sync.Map: each Load and each Store is atomic, the Load and
\* the Store of one call of cacheTypeFields are not.
MaxTasks == 2

\* The type T of another package that is also named pkg: reflect prints both
\* types as "pkg.T".
StructTOther ==
    [name |-> "pkg.T",
     fields |-> <<Field("Name", <<"name">>, <<"">>),
                  Field("Age", <<"">>, <<"">>)>>]

ValidTypes == {StructT, StructTOther, StructU}

NoType == [name |-> "", fields |-> <<>>]

IdleTask == [pc |-> "idle", type |-> NoType, key |-> "", fieldMap |-> {}, labels |-> {}]

InitCache ==
    /\ RouterNew
    /\ CtrlNew
    /\ grace = 0
    /\ rq = <<>>
    /\ fieldCache = {}
    /\ tasks = [g \in 1..MaxTasks |-> IdleTask]
    /\ din = [res |-> Result("nil", <<>>, ""), conn |-> "open"]
    /\ dout = <<>>
    /\ dpc = "idle"
    /\ dreq = NoRequest
    /\ dlog = NoLog
    /\ cfg = NoConfig

\* cacheTypeFields up to its Load: the key of the type, and whether the
\* cache has it.
CacheLoad(g, t) ==
    /\ tasks[g].pc = "idle"
    /\ tasks' = [tasks EXCEPT ![g] =
                    [IdleTask EXCEPT !.pc = IF MapHas(fieldCache, structCacheKey(t))
                                            THEN "keyed" ELSE "miss",
                                     !.type = t,
                                     !.key = structCacheKey(t)]]
    /\ UNCHANGED <<routerVars, ctrlVars, histVars, rq, fieldCache, din, dout, dpc, dreq, dlog, cfg>>

\* cacheTypeFields after a Load that found nothing: the map is built from
\* the fields of the type and stored under the key.
CacheStore(g) ==
    /\ tasks[g].pc = "miss"
    /\ fieldCache' = MapPut(fieldCache, tasks[g].key, FieldsMapFrom(tasks[g].type, 1, {}))
    /\ tasks' = [tasks EXCEPT ![g].pc = "keyed"]
    /\ UNCHANGED <<routerVars, ctrlVars, histVars, rq, din, dout, dpc, dreq, dlog, cfg>>

\* valid.Struct after cacheTypeFields: validate.Struct finds the value valid
\* (nil is returned) or its first field missing (Errors{key, vrr}).
StructReturn(g, ok) ==
    /\ tasks[g].pc = "keyed"
    /\ tasks' = [tasks EXCEPT ![g].pc = IF ok THEN "valid" ELSE "failed"]
    /\ UNCHANGED <<routerVars, ctrlVars, histVars, rq, fieldCache, din, dout, dpc, dreq, dlog, cfg>>

\* ExtractFieldErrors on the Errors that valid.Struct returned.
Extract(g) ==
    /\ tasks[g].pc = "failed"
    /\ LET vrr == [cacheKey |-> tasks[g].key,
                   violations |-> <<Violation(tasks[g].type.fields[1].name, "required", <<>>)>>]
       IN tasks' = [tasks EXCEPT ![g].pc = "labelled",
                                 ![g].fieldMap = IF MapHas(fieldCache, vrr.cacheKey)
                                                 THEN MapGet(fieldCache, vrr.cacheKey)
                                                 ELSE {},
                                 ![g].labels = ExtractFieldErrors(vrr)]
    /\ UNCHANGED <<routerVars, ctrlVars, histVars, rq, fieldCache, din, dout, dpc, dreq, dlog, cfg>>

NextCache ==
    \/ \E g \in DOMAIN tasks, t \in ValidTypes : CacheLoad(g, t)
    \/ \E g \in DOMAIN tasks : CacheStore(g)
    \/ \E g \in DOMAIN tasks, ok \in BOOLEAN : StructReturn(g, ok)
    \/ \E g \in DOMAIN tasks : Extract(g)

SpecCache == InitCache /\ [][NextCache]_vars

----
\* Serving: a router with its routes registered enters ListenAndServe; the
\* requests, the listener goroutine, the signals and the controller interleave.
Init ==
    /\ handlers = {<<"/a", "h1">>}
    /\ mwares = <<"A">>
    /\ mux = {}
    /\ proc = "up"
    /\ lastCall = NoCall
    /\ CtrlNew
    /\ grace \in 0..MaxGrace
    /\ rq = [r \in Reqs |-> IdleReq]
    /\ PureIdle

Next ==
    \/ ListenAndServe
    \/ \E r \in DOMAIN rq, p \in Patterns : Arrive(r, p)
    \/ \E r \in DOMAIN rq : Enter(r)
    \/ \E r \in DOMAIN rq, res \in Faults : Finish(r, res, "open")
    \/ \E e \in ListenerResults : ListenerStop(e)
    \/ ListenerSend
    \/ Signal
    \/ Select
    \/ DoneCase
    \/ QuitCase
    \/ Tick
    \/ ShutdownReturn

Spec == Init /\ [][Next]_vars

\* The same program with the scheduling the runtime gives: the goroutine
\* running ListenAndServe is not starved once it has received from quit, the
\* timer of the shutdown context runs, and server.Shutdown returns when it
\* may.  Nothing is assumed of the handlers: a request may stay in its chain
\* for ever.
MaxLiveReqs == 1

InitLive ==
    /\ handlers = {<<"/a", "h1">>}
    /\ mwares = <<"A">>
    /\ mux = {}
    /\ proc = "up"
    /\ lastCall = NoCall
    /\ CtrlNew
    /\ grace \in 0..MaxGrace
    /\ rq = [r \in 1..MaxLiveReqs |-> IdleReq]
    /\ PureIdle

SpecLive ==
    /\ InitLive
    /\ [][Next]_vars
    /\ WF_vars(QuitCase)
    /\ WF_vars(Tick)
    /\ WF_vars(ShutdownReturn)

\* SpecLive with the goroutine of the listener scheduled as well: its send on
\* done is taken once it can be.
SpecListener ==
    /\ InitLive
    /\ [][Next]_vars
    /\ WF_vars(QuitCase)
    /\ WF_vars(Tick)
    /\ WF_vars(ShutdownReturn)
    /\ WF_vars(ListenerSend)

----
\* Registration: Handle and Use in any order, before and after ListenAndServe
\* has started the listener, and the dispatch of one request at a time.
MaxRegReqs == 1

InitReg ==
    /\ RouterNew
    /\ CtrlNew
    /\ grace = 0
    /\ rq = [r \in 1..MaxRegReqs |-> IdleReq]
    /\ PureIdle

NextReg ==
    \/ \E p \in Patterns, h \in HandlerIds : Handle(p, h)
    \/ \E ms \in SeqsUpTo(Middlewares, MaxMwares) \ {<<>>} : Use(ms)
    \/ ListenAndServe
    \/ \E r \in DOMAIN rq, p \in Patterns : Arrive(r, p)
    \/ \E r \in DOMAIN rq : Enter(r)
    \/ \E r \in DOMAIN rq, res \in Faults : Finish(r, res, "open")

SpecReg == InitReg /\ [][NextReg]_vars

----
\* The classification table of the error classifier, kind by kind.
TableResponse(kind, e) ==
    CASE kind = "Binding" ->
            ErrorResponse(400, "DECODE_ERROR", e.msg, e.errors)
      [] kind = "Validation" ->
            ErrorResponse(400, "VALIDATION_ERROR", "Invalid Request", ExtractFieldErrors(e))
      [] kind = "NotFound" ->
            ErrorResponse(404, "DOMAIN_ERROR", e.msg, {})
      [] kind = "Domain" ->
            ErrorResponse(400, "DOMAIN_ERROR", e.msg, {})
      [] OTHER ->
            ErrorResponse(500, "INTERNAL_ERROR", "Something went wrong", {})

\* The kinds an error can be matched as.
KindsOf(err) == {err[i].kind : i \in DOMAIN err} \ {"Other"}

FirstOfKind(err, kind) ==
    err[CHOOSE i \in DOMAIN err :
            err[i].kind = kind /\ \A j \in 1..(i - 1) : err[j].kind # kind]

Priority == <<"Binding", "Validation", "NotFound", "Domain">>

WinningKind(err) ==
    Priority[CHOOSE i \in DOMAIN Priority :
                Priority[i] \in KindsOf(err) /\ \A j \in 1..(i - 1) : Priority[j] \notin KindsOf(err)]

----
InternalErrorWrite ==
    [code |-> 500,
     body |-> ErrorResponse(500, "INTERNAL_ERROR", "Something went wrong", {}),
     delivered |-> TRUE]

Finishes(r) == rq[r].st = "chain" /\ rq'[r].st = "done"

\* C3: a panic in the handler chain of a request, in a middleware or in the
\* handler, is answered 500 INTERNAL_ERROR by that request's handleRequest and
\* goes no further: the step leaves every other request, the router, the
\* process and the lifecycle controller as they were, and a request that
\* finishes while or after another one panicked is answered by its own
\* outcome alone.
C3_PanicContained ==
    [][\A r \in Reqs :
          /\ (Finishes(r) /\ rq'[r].res.type = "panic") =>
                /\ rq'[r].writes = <<InternalErrorWrite>>
                /\ \A q \in Reqs \ {r} : rq'[q] = rq[q]
                /\ ctrlVars' = ctrlVars
                /\ routerVars' = routerVars
          /\ (Finishes(r) /\ \E q \in Reqs \ {r} : rq[q].res.type = "panic") =>
                /\ rq'[r].res.type = "nil" => rq'[r].writes = <<>>
                /\ rq'[r].res.type = "err" =>
                      /\ Len(rq'[r].writes) = 1
                      /\ rq'[r].writes[1].body.Error = "DOMAIN_ERROR"]_vars

C3_Witness ==
    /\ rq[1].st = "done"
    /\ rq[1].res.type = "panic"
    /\ rq[1].depth = 1
    /\ rq[1].writes = <<InternalErrorWrite>>
    /\ rq[2].st = "done"
    /\ rq[2].res.type = "nil"
    /\ rq[2].depth = 2
    /\ State = "Running"
    /\ proc = "up"

\* The layers a request entered are the layers of its compiled chain from
\* the outermost inwards, and a request that returned left them innermost
\* first.
TraceInOrder(r) ==
    LET c == chainOf(r)
        d == rq[r].depth
        t == rq[r].trace
    IN /\ Len(t) >= d
       /\ \A i \in 1..d : t[i] = <<"in", c[i]>>
       /\ (rq[r].st = "done" /\ rq[r].res.type # "panic") =>
             /\ Len(t) = 2 * d
             /\ \A i \in 1..d : t[d + i] = <<"out", c[d + 1 - i]>>

\* C4: whatever Use and Handle calls were made before serving, in whatever
\* order, ListenAndServe compiles for every registered route the chain of all
\* the registered middleware in registration order around the route's
\* handler, the first registered outermost; a request enters the layers in
\* that order (A, B, H) and leaves them in the reverse order (H, B, A).
C4_MiddlewareOrder ==
    [][/\ (~started /\ started') =>
             mux' = {<<p[1], mwares \o <<p[2]>>>> : p \in handlers}
       /\ \A r \in DOMAIN rq : rq'[r].st # "idle" => TraceInOrder(r)']_vars

C4_Witness ==
    /\ started
    /\ rq[1].st = "done"
    /\ rq[1].route = "/a"
    /\ rq[1].res.type = "nil"
    /\ mux = {<<"/a", <<"A", "B", "h1">>>>, <<"/b", <<"A", "B", "h2">>>>}
    /\ rq[1].trace = <<<<"in", "A">>, <<"in", "B">>, <<"in", "h1">>,
                       <<"out", "h1">>, <<"out", "B">>, <<"out", "A">>>>

HandleStep ==
    /\ lastCall'.op = "Handle"
    /\ (handlers' # handlers \/ proc' # proc \/ lastCall' # lastCall)

C6_FrozenAfterStart ==
    [][started => (handlers' = handlers /\ mwares' = mwares /\ mux' = mux)]_vars

\* C7: when the controller takes a termination signal and the shutdown
\* context never expires with a request still being served, every request
\* that was in flight at the signal has run to its end and been answered, and
\* ListenAndServe returns nil.
C7_GracefulDrain ==
    (cpc = "returned" /\ branch = "quit" /\ ctxErr = Nil) =>
        /\ ret = Nil
        /\ \A r \in drain :
              /\ rq[r].st = "done"
              /\ rq[r].res.type = "panic" => rq[r].writes = <<InternalErrorWrite>>
              /\ rq[r].res.type = "err" => Len(rq[r].writes) = 1
              /\ rq[r].res.type = "nil" => rq[r].writes = <<>>

C7_Witness ==
    /\ cpc = "returned"
    /\ branch = "quit"
    /\ grace = 1
    /\ elapsed = 0
    /\ ret = Nil
    /\ drain = {1}
    /\ rq[1].st = "done"
    /\ rq[1].depth = 2
    /\ rq[1].res.type = "nil"

\* C8 as stated: after the shutdown timed out, the handlers that were still
\* running do not run any further.
C8_CutOff ==
    [][(cpc = "returned" /\ ret = DeadlineExceeded) => rq' = rq]_vars

\* C8 amended: when a request is still being served as the shutdown context
\* expires, ListenAndServe returns the context's deadline error, at the
\* expiry and not before, and a quit-branch error is only ever that one; the
\* request itself is not touched by the return.
C8_TimeoutReported ==
    /\ ctxErr = DeadlineExceeded => (elapsed = grace /\ branch = "quit")
    /\ (cpc = "returned" /\ branch = "quit") =>
          (ret = DeadlineExceeded <=> ctxErr = DeadlineExceeded)
    /\ (cpc = "returned" /\ branch = "quit" /\ ret # Nil) => ret = DeadlineExceeded

C8_Witness ==
    /\ cpc = "returned"
    /\ branch = "quit"
    /\ grace = 1
    /\ elapsed = 1
    /\ ret = DeadlineExceeded
    /\ drain = {1}
    /\ rq[1].st = "chain"

RealError(e) == e # Nil /\ e # ErrServerClosed

\* C9 as stated: the return value is decided by which of the two arrived
\* first.
C9_ByFirstArrival ==
    cpc = "returned" =>
        (ret # Nil <=> \/ (arrivals[1] = "done" /\ RealError(lres))
                       \/ (arrivals[1] = "quit" /\ ctxErr = DeadlineExceeded))

\* C9 amended: ListenAndServe returns a non-nil error in exactly two cases:
\* the select received the listener's result and it is an error other than
\* ErrServerClosed (that error is returned and no shutdown is attempted), or
\* the select received a termination signal and the drain timed out (the
\* deadline error is returned); in every other case it returns nil.
C9_ReturnValue ==
    cpc = "returned" =>
        /\ ret # Nil <=> \/ (branch = "done" /\ RealError(lres))
                         \/ (branch = "quit" /\ ctxErr = DeadlineExceeded)
        /\ (branch = "done" /\ ret # Nil) =>
              (ret = lres /\ ctxErr = Nil /\ elapsed = 0 /\ lsn = "sent")
        /\ (branch = "quit" /\ ret # Nil) => ret = DeadlineExceeded

C9_Witness ==
    /\ cpc = "returned"
    /\ branch = "done"
    /\ lres = ErrListen
    /\ ret = ErrListen
    /\ inflight # {}

Rank(st) ==
    CASE st = "NotStarted" -> 0
      [] st = "Running" -> 1
      [] st = "ShuttingDown" -> 2
      [] st = "Stopped" -> 3

Range(f) == {f[i] : i \in DOMAIN f}

\* C10 as stated: the case taken is the one whose value arrived first.
C10_FirstArrivalWins ==
    branch # "none" => branch = arrivals[1]

\* C10 amended: the lifecycle state only moves forward, Running on entry,
\* ShuttingDown only after a termination signal was received, Stopped from
\* Running only through the listener's result; the controller takes exactly
\* one case of the select, one whose value has arrived: the first to arrive
\* when the controller is already waiting or only one is pending, either of
\* the two when both are pending as it reaches the select.
C10_Lifecycle ==
    [][/\ Rank(State') >= Rank(State)
       /\ (State = "NotStarted" /\ State' # State) => State' = "Running"
       /\ (State = "Running" /\ State' = "Stopped") => branch' = "done"
       /\ State' = "ShuttingDown" => (branch' = "quit" /\ "quit" \in Range(arrivals'))
       /\ State' = "Stopped" => branch' # "none"
       /\ branch # "none" => branch' = branch
       /\ branch' # "none" =>
             /\ branch' \in Range(arrivals')
             /\ (ready' # {"done", "quit"}) => branch' = arrivals'[1]]_vars

C10_Witness ==
    /\ State = "Stopped"
    /\ branch = "quit"
    /\ ready = {}
    /\ arrivals = <<"quit">>
    /\ ret = Nil

----
\* What handleRequest leaves written for a request that ended with res.
Answered(r) ==
    /\ rq[r].res.type = "panic" => rq[r].writes = <<InternalErrorWrite>>
    /\ rq[r].res.type = "err" =>
          /\ Len(rq[r].writes) = 1
          /\ rq[r].writes[1].delivered
    /\ rq[r].res.type = "nil" => rq[r].writes = <<>>

C11_Bounded ==
    /\ (cpc = "shutdown" /\ elapsed >= grace) => Shutdown(ctxErr, inflight) # Pending
    /\ (branch = "quit" /\ cpc \in {"shutdown", "returned"}) => elapsed <= grace

C11_NothingDropped ==
    branch = "quit" =>
        /\ \A r \in drain : rq[r].st \in {"chain", "done"}
        /\ \A r \in drain : rq[r].st = "done" => Answered(r)
        /\ (cpc = "returned" /\ ret = Nil) => \A r \in drain : rq[r].st = "done"

\* C11: once the controller has received a termination signal, ListenAndServe
\* returns, and does so before the shutdown context has been expired for any
\* time, whether or not the requests in flight ever finish; a request in
\* flight at the signal that finishes before the return is answered in full
\* by its own handleRequest, and a nil return means that every one of them
\* finished.
C11_ShutdownTerminates ==
    /\ [](C11_Bounded /\ C11_NothingDropped)
    /\ (cpc = "recvQuit") ~> (cpc = "returned")

C11_Witness ==
    /\ cpc = "returned"
    /\ branch = "quit"
    /\ grace = 1
    /\ elapsed = 1
    /\ drain = {1}
    /\ rq[1].st = "chain"
    /\ rq[1].depth = 2
    /\ ret = DeadlineExceeded

----
\* C12: when the write of the classified error response fails, the failure
\* is followed by exactly one attempt to write the internal error response
\* (500 INTERNAL_ERROR), and by nothing more.
C12_FallbackOnWriteFailure ==
    (dpc = "done" /\ din.res.type = "err" /\ din.conn = "gone") =>
        /\ Len(dout) = 2
        /\ ~dout[1].delivered
        /\ dout[2].code = StatusInternalServerError
        /\ dout[2].body = ErrorResponse(StatusInternalServerError, "INTERNAL_ERROR",
                                        "Something went wrong", {})

----
\* The messages of the binder's table.
MsgValidJSON == <<"body must be valid JSON">>
MsgBadlyFormed == <<"body contains badly-formed JSON">>
MsgTooLarge == <<"body must not exceed ", "1048576", " bytes">>
MsgUnknownKeys(x) == <<"body contains unknown keys ", Quote(x)>>
MsgNotParsed == <<"body contains badly-formed JSON and can not be parsed">>
MsgWrongType(f) == <<"body contains incorrect JSON type for field ", Quote(f)>>
MsgWrongValue(n) ==
    <<"body contains incorrect JSON value that was not appropriate for the request body (at character ",
      FormatInt(n), ")">>
MsgSingleValue == <<"body must only contain a single JSON value">>

\* The call of Decode on a JSON body has returned.
JsonDecoded == dpc # "decode" /\ dreq.src = "json"

\* The binder failed: the pipeline stopped after binding.
BindFailed == dlog.phases = <<"bind">>

\* The message of the BindingError returned.
BindMsg == din.res.err[1].msg

IsBinding(res) ==
    /\ res.type = "err"
    /\ Len(res.err) = 1
    /\ res.err[1].kind = "Binding"

\* The first part of the body that is not white space.
FirstPart(b) == SkipSpace(b, 1)

\* The first value of the body is complete and within the cap.
FirstValueRead(b) ==
    /\ FirstPart(b) <= Len(b)
    /\ b[FirstPart(b)].kind \in {"object", "string"}
    /\ SizeUpTo(b, FirstPart(b)) <= maxBytes

\* The read of the body fails before a first value is complete.
ReadFails(b) ==
    /\ FirstPart(b) <= Len(b)
    /\ b[FirstPart(b)].kind = "fail"
    /\ SizeUpTo(b, FirstPart(b) - 1) <= maxBytes

\* The members of an object that the target does not take.
Unknown(t, m) == \A i \in DOMAIN t.fields : ToLower(JsonName(t.fields[i])) # ToLower(m.key)

Mismatched(t, m) ==
    \E i \in DOMAIN t.fields :
        /\ ToLower(JsonName(t.fields[i])) = ToLower(m.key)
        /\ FieldType(t.fields[i].name) # m.type

Defects(t, ms) == {i \in DOMAIN ms : Unknown(t, ms[i]) \/ Mismatched(t, ms[i])}

Min(S) == CHOOSE x \in S : \A y \in S : x <= y

\* The name encoding/json gives the field a key selects.
NameOfKey(t, key) ==
    JsonName(t.fields[CHOOSE i \in DOMAIN t.fields :
                          ToLower(JsonName(t.fields[i])) = ToLower(key)])

\* The conditions of the table, as properties of the request.
BodyEmpty(b) == FirstPart(b) > Len(b)
BodyTruncated(b) == b # <<>> /\ b[Len(b)].kind = "cut"
BodyHasBad(b) == \E i \in DOMAIN b : b[i].kind = "bad"
FirstObject(b) ==
    IF FirstPart(b) <= Len(b) /\ b[FirstPart(b)].kind = "object"
    THEN b[FirstPart(b)].members
    ELSE <<>>
UnknownKeys(t, b) == {i \in DOMAIN FirstObject(b) : Unknown(t, FirstObject(b)[i])}
WrongTypes(t, b) == {i \in DOMAIN FirstObject(b) : Mismatched(t, FirstObject(b)[i])}

\* C13 as stated: a failed decode is classified by the first condition of
\* the table that holds of the request, in the order of the table; a body
\* with an undeclared field is rejected with the message naming it (bodies
\* that can be read).
C13_StrictOrder ==
    (JsonDecoded /\ BindFailed /\ ~ReadFails(dreq.body)) =>
        LET b == dreq.body
            t == TypeOf(dreq.target.type)
        IN IF ~dreq.target.ptr THEN din.res.type = "panic"
           ELSE /\ IsBinding(din.res)
                /\ IF BodyEmpty(b) THEN BindMsg = MsgValidJSON
                   ELSE IF BodyTruncated(b) THEN BindMsg = MsgBadlyFormed
                   ELSE IF TooLarge(b) THEN BindMsg = MsgTooLarge
                   ELSE IF UnknownKeys(t, b) # {}
                   THEN BindMsg = MsgUnknownKeys(FirstObject(b)[Min(UnknownKeys(t, b))].key)
                   ELSE IF BodyHasBad(b) THEN BindMsg = MsgNotParsed
                   ELSE IF WrongTypes(t, b) # {}
                   THEN BindMsg = MsgWrongType(NameOfKey(t, FirstObject(b)[Min(WrongTypes(t, b))].key))
                   ELSE BindMsg \in {MsgWrongValue(b[FirstPart(b)].size), MsgSingleValue}

\* C13 amended: a failed decode is a panic or a BindingError with a message
\* of the table and no field map, decided by the first defect the JSON
\* engine meets.  The engine reads the first value before it looks at the
\* target: a body with nothing but white space is "body must be valid JSON",
\* a value cut short by the end of the body "body contains badly-formed
\* JSON", bytes breaking the grammar "... and can not be parsed", and the cap
\* reached before the value ends or breaks "body must not exceed 1048576
\* bytes".  Only when the first value was read does an invalid target panic;
\* with a valid target the first member in document order that is undeclared
\* or of the wrong type decides between "unknown keys X" and "incorrect JSON
\* type for field F" (a value that is no object gives the message with the
\* offset), and a body whose only defect is an undeclared field is rejected
\* with the message naming that field.  A read of the body that fails with
\* an error of the connection is outside the table.
C13_FirstDefectDecides ==
    (JsonDecoded /\ BindFailed /\ ~ReadFails(dreq.body)) =>
        LET b == dreq.body
            t == TypeOf(dreq.target.type)
            j == FirstPart(b)
        IN /\ din.res.type = "panic" <=> (FirstValueRead(b) /\ ~dreq.target.ptr)
           /\ din.res.type # "panic" => (IsBinding(din.res) /\ din.res.err[1].errors = {})
           /\ ~FirstValueRead(b) =>
                 BindMsg = (IF j > Len(b)
                            THEN (IF TooLarge(b) THEN MsgTooLarge ELSE MsgValidJSON)
                            ELSE IF b[j].kind = "bad"
                            THEN (IF SizeUpTo(b, j - 1) < maxBytes THEN MsgNotParsed ELSE MsgTooLarge)
                            ELSE IF b[j].kind = "cut"
                            THEN (IF TooLarge(b) THEN MsgTooLarge ELSE MsgBadlyFormed)
                            ELSE MsgTooLarge)
           /\ (FirstValueRead(b) /\ dreq.target.ptr) =>
                 BindMsg = (IF b[j].kind = "string" THEN MsgWrongValue(b[j].size)
                            ELSE IF Defects(t, b[j].members) = {} THEN MsgSingleValue
                            ELSE LET m == b[j].members[Min(Defects(t, b[j].members))]
                                 IN IF Unknown(t, m) THEN MsgUnknownKeys(m.key)
                                    ELSE MsgWrongType(NameOfKey(t, m.key)))
           /\ (FirstValueRead(b) /\ dreq.target.ptr /\ WrongTypes(t, b) = {} /\ UnknownKeys(t, b) # {}) =>
                 BindMsg = MsgUnknownKeys(FirstObject(b)[Min(UnknownKeys(t, b))].key)

C13_Witness ==
    /\ JsonDecoded
    /\ BindFailed
    /\ dreq.target = Target("T", TRUE)
    /\ Len(dreq.body) = 1
    /\ dreq.body[1].kind = "object"
    /\ dreq.body[1].members = <<Member("full_name", "string", "bob"), Member("extra", "number", 1)>>
    /\ IsBinding(din.res)
    /\ BindMsg = MsgUnknownKeys("extra")

----
\* C14: every JSON body longer than the cap of 1048576 bytes is rejected by
\* Decode with the BindingError "body must not exceed 1048576 bytes", and the
\* router answers it 400 DECODE_ERROR with that message.
C14_OversizeNamesLimit ==
    (JsonDecoded /\ TooLarge(dreq.body)) =>
        /\ IsBinding(din.res)
        /\ BindMsg = MsgTooLarge
        /\ dpc = "done" =>
              /\ Len(dout) = 1
              /\ dout[1].code = StatusBadRequest
              /\ dout[1].body.Error = "DECODE_ERROR"
              /\ dout[1].body.Message = MsgTooLarge

----
\* The first value of the body was decoded into the target without error.
FirstValueDecoded ==
    /\ FirstValueRead(dreq.body)
    /\ dreq.target.ptr
    /\ dreq.body[FirstPart(dreq.body)].kind = "object"
    /\ Defects(TypeOf(dreq.target.type), dreq.body[FirstPart(dreq.body)].members) = {}

\* The parts of the body after its first value that are not white space.
AfterFirstValue == {i \in DOMAIN dreq.body : i > FirstPart(dreq.body) /\ dreq.body[i].kind # "ws"}

\* C15: when the first top-level value of a JSON body decodes without
\* error, decode accepts the body only if nothing but white space and the
\* end of the input follow the value; if anything else follows, a second
\* JSON value in particular, decode returns the BindingError "body must only
\* contain a single JSON value".
C15_SingleValue ==
    (JsonDecoded /\ FirstValueDecoded) =>
        /\ ~BindFailed => (AfterFirstValue = {} /\ ~TooLarge(dreq.body))
        /\ AfterFirstValue # {} =>
              /\ BindFailed
              /\ IsBinding(din.res)
              /\ BindMsg = MsgSingleValue
              /\ din.res.err[1].errors = {}

C15_Witness ==
    /\ JsonDecoded
    /\ FirstValueDecoded
    /\ Len(dreq.body) = 2
    /\ dreq.body[2].kind = "object"
    /\ dreq.body[2].members = <<Member("full_name", "string", "bob")>>
    /\ BindFailed
    /\ BindMsg = MsgSingleValue

----
\* The call of Decode or DecodeURL has returned.
Decoded == dpc # "decode" /\ dreq.src # "none"

\* C16: Decode and DecodeURL bind, then normalize if and only if the target
\* is a Normalizer, then validate.  When binding fails nothing else runs
\* (no normalization, no validator, no type cached) and the outcome is the
\* binder's; otherwise the validator is given the target as normalization
\* left it, its violations are what the call returns, and nil is returned
\* only when both binding and validation succeeded.
C16_PipelineOrder ==
    Decoded =>
        LET type == dreq.target.type
        IN /\ dlog.phases \in {<<"bind">>, <<"bind", "validate">>, <<"bind", "normalize", "validate">>}
           /\ BindFailed =>
                 /\ din.res.type = "panic" \/ IsBinding(din.res) \/ ReadFails(dreq.body)
                 /\ fieldCache = {}
           /\ ~BindFailed =>
                 /\ (dlog.phases = <<"bind", "normalize", "validate">>) <=> IsNormalizer(type)
                 /\ dlog.seen = dlog.v
                 /\ IsNormalizer(type) => dlog.seen = Normalize(dlog.seen)
                 /\ MapHas(fieldCache, structCacheKey(TypeOf(type)))
                 /\ IF validateStruct(TypeOf(type), dlog.seen, 1) = <<>>
                    THEN din.res.type = "nil"
                    ELSE /\ din.res.type = "err"
                         /\ Len(din.res.err) = 1
                         /\ din.res.err[1].kind = "Validation"
                         /\ din.res.err[1].violations = validateStruct(TypeOf(type), dlog.seen, 1)
           /\ din.res.type = "nil" =>
                 (~BindFailed /\ validateStruct(TypeOf(type), dlog.seen, 1) = <<>>)

C16_Witness ==
    /\ Decoded
    /\ dreq.src = "json"
    /\ dreq.target = Target("N", TRUE)
    /\ dreq.body = <<Item("object", 24, <<Member("full_name", "string", "BOB"),
                                           Member("age", "number", 5)>>)>>
    /\ dlog.phases = <<"bind", "normalize", "validate">>
    /\ dlog.seen.Name = "bob"
    /\ din.res.type = "nil"

----
\* The call of DecodeURL on a query has returned.
QueryDecoded == dpc # "decode" /\ dreq.src = "query"

\* C17: the params map decodeURL builds has the keys of the query and no
\* other; a key with exactly one value has that value, unwrapped, and a key
\* with any other number of values has the list of them in their order.
\* Decoded into a struct with Ids []string and Name string, a query with
\* ids=1, ids=2, name=bob gives Ids = <<"1", "2">> and Name = "bob", and a
\* query with name=bob alone gives Name = "bob".
C17_QueryFlattened ==
    QueryDecoded =>
        LET params == paramsOf(dreq.query)
        IN /\ MapKeys(params) = MapKeys(dreq.query)
           /\ Cardinality(params) = Cardinality(dreq.query)
           /\ \A p \in dreq.query :
                 MapGet(params, p[1]) = (IF Len(p[2]) = 1
                                         THEN [kind |-> "string", val |-> <<p[2][1]>>]
                                         ELSE [kind |-> "[]string", val |-> p[2]])
           /\ (dreq.target = Target("Q", TRUE) /\ ~BindFailed) =>
                 /\ \A p \in dreq.query : p[1] = "ids" => dlog.v.Ids = p[2]
                 /\ \A p \in dreq.query : p[1] = "name" => (Len(p[2]) = 1 /\ dlog.v.Name = p[2][1])
           /\ (dreq.target = Target("Q", TRUE) /\ MapHas(dreq.query, "name")
                 /\ Len(MapGet(dreq.query, "name")) = 1) => ~BindFailed

C17_Witness ==
    /\ QueryDecoded
    /\ dreq.target = Target("Q", TRUE)
    /\ dreq.query = {<<"ids", <<"1", "2">>>>, <<"name", <<"bob">>>>}
    /\ dlog.v.Ids = <<"1", "2">>
    /\ dlog.v.Name = "bob"
    /\ din.res.type = "nil"

----
\* The fields of the target that the query cannot fill: a string field whose
\* key has several values.
FailingFields ==
    {QueryName(f) : f \in {g \in Range(TypeOf(dreq.target.type).fields) :
        /\ GoType(g.name) = "string"
        /\ MapHas(dreq.query, QueryName(g))
        /\ Len(MapGet(dreq.query, QueryName(g))) # 1}}

\* C18 as stated: every failing decodeURL call returns a BindingError with a
\* non-empty field map whose keys are the failing fields.
C18_AlwaysFieldMap ==
    (QueryDecoded /\ BindFailed) =>
        /\ IsBinding(din.res)
        /\ din.res.err[1].errors # {}
        /\ MapKeys(din.res.err[1].errors) = FailingFields

\* C18 amended: a failure of the decoder's Decode is returned as the
\* BindingError "Query Params Decoding Failed" with a non-empty field map:
\* one entry for each failing field, keyed by the quoted token that opens the
\* engine's line for it, with the rest of the line, trimmed, as the message.
\* A failure to build the decoder (the target is not a pointer) is returned
\* as a BindingError with the engine's message alone and no field map.
C18_FieldMapOnDecodeFailure ==
    (QueryDecoded /\ BindFailed) =>
        /\ IsBinding(din.res)
        /\ IF dreq.target.ptr
           THEN /\ BindMsg = <<"Query Params Decoding Failed">>
                /\ din.res.err[1].errors # {}
                /\ MapKeys(din.res.err[1].errors) = FailingFields
                /\ \A e \in din.res.err[1].errors :
                      /\ e[2] # <<>>
                      /\ e[2][1] = Tok("text", "expected type")
                      /\ e[2][Len(e[2])] = Tok("quoted", "[]string")
                      /\ \A i \in DOMAIN e[2] : e[2][i] # Tok("quoted", e[1])
           ELSE /\ BindMsg = <<"result must be a pointer">>
                /\ din.res.err[1].errors = {}

C18_Witness ==
    /\ QueryDecoded
    /\ BindFailed
    /\ dreq.target = Target("Q", TRUE)
    /\ dreq.query = {<<"ids", <<"1">>>>, <<"name", <<"bob", "al">>>>}
    /\ MapKeys(din.res.err[1].errors) = {"name"}
    /\ dpc = "done"
    /\ dout[1].body.Error = "DECODE_ERROR"
    /\ dout[1].body.Errors = din.res.err[1].errors

----
\* The struct types valid.Struct has seen.
TypeNamed(key) == CHOOSE t \in {StructT, StructU} : structCacheKey(t) = key

FieldNamed(t, name) == t.fields[CHOOSE i \in DOMAIN t.fields : t.fields[i].name = name]

\* The name a struct tag declares: its first part, when the tag is there, is
\* not "-" and names something.
Declared(tag) == tag # <<"">> /\ tag # <<"-">> /\ tag[1] # ""

\* The key the claim gives a violation: the declared JSON name, else the
\* declared query name, else the lowercased field name.
KeyOf(f) ==
    IF Declared(f.json) THEN f.json[1]
    ELSE IF Declared(f.query) THEN f.query[1]
    ELSE ToLower(f.name)

\* C19: for every violation of a validation error answered by the router,
\* the error map of the VALIDATION_ERROR response has an entry under the
\* field's declared JSON name, else its query name, else its lowercased
\* name, whose value is the catalog message of the rule ("is invalid" for a
\* rule outside the catalog).
C19_FieldKeys ==
    (dpc = "done" /\ din.res.type = "err" /\ dout # <<>>
        /\ dout[1].body.Error = "VALIDATION_ERROR") =>
        LET e == din.res.err[As(din.res.err, "Validation")]
        IN \A i \in DOMAIN e.violations :
              <<KeyOf(FieldNamed(TypeNamed(e.cacheKey), e.violations[i].field)),
                RuleMessage(e.violations[i].tag, e.violations[i].param)>>
                  \in dout[1].body.Errors

----
\* A port in 1..65535 written as a number.
NumericPort(p) == Atoi(p).ok /\ Atoi(p).n >= 1 /\ Atoi(p).n <= 65535

\* C20: after Config.Validate, whatever the configuration was, Port is a
\* numeric port in 1..65535 (a value that was not has become 8080), the three
\* timeouts are >= 0 (a negative one has become 0), GracefulShutdown is >= 0
\* (a negative one has become 10), MaxHeaderBytes is > 0 (a value <= 0 has
\* become 1048576), and a field that was in range is as it was.
C20_ConfigClamped ==
    cfg.pc = "validated" =>
        /\ NumericPort(cfg.out.Port)
        /\ cfg.out.Port = (IF NumericPort(cfg.in.Port) THEN cfg.in.Port ELSE DefaultPort)
        /\ \A f \in {"ReadTimeout", "WriteTimeout", "IdleTimeout"} :
              cfg.out[f] = (IF cfg.in[f] < 0 THEN 0 ELSE cfg.in[f])
        /\ cfg.out.GracefulShutdown = (IF cfg.in.GracefulShutdown < 0 THEN 10
                                       ELSE cfg.in.GracefulShutdown)
        /\ cfg.out.MaxHeaderBytes = (IF cfg.in.MaxHeaderBytes <= 0 THEN 1048576
                                     ELSE cfg.in.MaxHeaderBytes)
        /\ cfg.err = Nil

----
\* The request ended in a fault the classifier has no shape for: a panic, or
\* an error none of whose elements is of a classified kind.
InternalFault(res) ==
    \/ res.type = "panic"
    \/ res.type = "err" /\ KindsOf(res.err) = {}

\* The messages of the elements of an error that the classifier may show.
ShownMessages(err) == {err[i].msg : i \in {j \in DOMAIN err : err[j].kind \in {"Binding", "NotFound", "Domain"}}}

\* C21: the answer to a panic or to an unclassified error is the same
\* whatever the panic value or the error: one write of status 500 with the
\* body {500, INTERNAL_ERROR, "Something went wrong"} and no field map; the
\* message of any response is a fixed text or the message of an element of
\* the error that is a BindingError, a NotFoundError or a DomainError.
C21_InternalFaultOpaque ==
    dpc = "done" =>
        /\ InternalFault(din.res) =>
              /\ Len(dout) = 1
              /\ dout[1].code = 500
              /\ dout[1].body = ErrorResponse(500, "INTERNAL_ERROR", "Something went wrong", {})
        /\ \A i \in DOMAIN dout :
              \/ dout[i].body.Message \in {"Something went wrong", "Invalid Request"}
              \/ /\ din.res.type = "err"
                 /\ ~InternalFault(din.res)
                 /\ dout[i].body.Message \in ShownMessages(din.res.err)

C21_Witness ==
    /\ dpc = "done"
    /\ din.res.type = "err"
    /\ Len(din.res.err) = 2
    /\ KindsOf(din.res.err) = {}
    /\ din.res.err[1].msg # din.res.err[2].msg
    /\ dout = <<InternalErrorWrite>>

----
\* C22: the phases of a request follow one another: nothing is written for a
\* request while its chain runs; the router writes an error response only
\* once the chain has returned a non-nil error (every layer entered has then
\* been left) or has panicked; for a chain that returned nil it writes
\* nothing.
C22_WriteAfterChain ==
    \A r \in DOMAIN rq :
        /\ rq[r].st # "done" => rq[r].writes = <<>>
        /\ (rq[r].st = "done" /\ rq[r].res.type = "nil") => rq[r].writes = <<>>
        /\ rq[r].writes # <<>> =>
              /\ rq[r].st = "done"
              /\ rq[r].res.type \in {"err", "panic"}
              /\ rq[r].res.type = "err" => Len(rq[r].trace) = 2 * rq[r].depth
        /\ (rq[r].st = "done" /\ rq[r].res.type \in {"err", "panic"}) => rq[r].writes # <<>>

C22_Witness ==
    /\ rq[1].st = "done"
    /\ rq[1].res.type = "err"
    /\ rq[1].depth = 2
    /\ Len(rq[1].trace) = 4
    /\ Len(rq[1].writes) = 1
    /\ rq[2].st = "done"
    /\ rq[2].res.type = "nil"
    /\ rq[2].depth = 2
    /\ rq[2].writes = <<>>

----
\* The tags of the error responses.
ErrorTags == {"DOMAIN_ERROR", "VALIDATION_ERROR", "DECODE_ERROR", "INTERNAL_ERROR"}

\* C23: in every error response the router writes, the status field of the
\* JSON body is the HTTP status code of the write, the code is 400, 404 or
\* 500, and the tag is DOMAIN_ERROR, VALIDATION_ERROR, DECODE_ERROR or
\* INTERNAL_ERROR.
C23_BodyMatchesStatus ==
    \A i \in DOMAIN dout :
        /\ dout[i].body.Status = dout[i].code
        /\ dout[i].code \in {400, 404, 500}
        /\ dout[i].body.Error \in ErrorTags
        /\ dout[i].code = 500 <=> dout[i].body.Error = "INTERNAL_ERROR"
        /\ dout[i].code = 404 => dout[i].body.Error = "DOMAIN_ERROR"

C23_Witness ==
    /\ dpc = "done"
    /\ din.res.type = "err"
    /\ Len(din.res.err) = 2
    /\ din.res.err[1].kind = "Other"
    /\ din.res.err[2].kind = "NotFound"
    /\ Len(dout) = 1
    /\ dout[1].code = 404
    /\ dout[1].body.Status = 404
    /\ dout[1].body.Error = "DOMAIN_ERROR"

----
\* C24: a request whose writes do not fail gets at most one error response
\* from the router: the one of the deferred recover for a panic and no
\* classified one, the one of exactly one of the five branches of the
\* classification for an error, none for nil.  A second write is never more
\* than the internal error response after a first write that returned an
\* error, and there is no third.
C24_AtMostOneResponse ==
    dpc = "done" =>
        /\ Len(dout) <= 2
        /\ din.conn = "open" => Len(dout) <= 1
        /\ din.res.type = "nil" => dout = <<>>
        /\ din.res.type = "panic" =>
              \A i \in DOMAIN dout : dout[i].body.Error = "INTERNAL_ERROR"
        /\ (din.res.type = "err" /\ din.conn = "open") =>
              /\ Len(dout) = 1
              /\ dout[1].body =
                    IF KindsOf(din.res.err) = {}
                    THEN ErrorResponse(500, "INTERNAL_ERROR", "Something went wrong", {})
                    ELSE TableResponse(WinningKind(din.res.err),
                                       FirstOfKind(din.res.err, WinningKind(din.res.err)))
        /\ Len(dout) = 2 =>
              /\ encode(din.conn, dout[1].code, dout[1].body).err # Nil
              /\ dout[2].body.Error = "INTERNAL_ERROR"

C24_Witness ==
    /\ dpc = "done"
    /\ din.conn = "open"
    /\ din.res.type = "err"
    /\ Len(din.res.err) = 2
    /\ din.res.err[1].kind = "Validation"
    /\ din.res.err[2].kind = "Binding"
    /\ Len(dout) = 1
    /\ dout[1].delivered
    /\ dout[1].body.Error = "DECODE_ERROR"

----
\* The send on done is the only one: done holds nothing before it and the
\* one result after it, unless the controller took the result.
C25_OneValue ==
    /\ Len(done) <= ChanCap
    /\ lsn # "sent" => done = <<>>
    /\ done # <<>> => done = <<lres>>

\* C25: the goroutine of the listener never blocks on delivering the result
\* of server.ListenAndServe: whenever the listener has stopped the send on
\* done can be taken at once, whatever the controller does (also when it took
\* the signal and never reads done), so the goroutine ends once the listener
\* has stopped.
C25_ListenerSendNeverBlocks ==
    /\ [](C25_OneValue)
    /\ [](lsn = "stopped" => ENABLED ListenerSend)
    /\ (lsn = "stopped") ~> (lsn = "sent")

C25_Witness ==
    /\ branch = "quit"
    /\ cpc = "returned"
    /\ lsn = "sent"
    /\ done = <<ErrServerClosed>>
    /\ ret = Nil

----
\* C26: every error that is not a panic and that Decode returns because the
\* JSON body could not be decoded is a BindingError, and the router answers
\* the request 400 DECODE_ERROR, never 500 INTERNAL_ERROR.
C26_DecodeFailureIsBinding ==
    (JsonDecoded /\ BindFailed /\ din.res.type # "panic") =>
        /\ IsBinding(din.res)
        /\ dpc = "done" =>
              /\ Len(dout) = 1
              /\ dout[1].code = StatusBadRequest
              /\ dout[1].body.Error = "DECODE_ERROR"

----
\* C27: whatever struct types are validated, in whatever order and
\* interleaving, the field map by which the violations of a struct are
\* labelled is the one built from the tags of that struct's own type, and a
\* map once stored under a key of the cache is never replaced by a different
\* one.
C27_CacheServesOwnMapping ==
    /\ [](\A g \in DOMAIN tasks :
            tasks[g].pc = "labelled" =>
                /\ tasks[g].fieldMap = FieldsMapFrom(tasks[g].type, 1, {})
                /\ tasks[g].labels =
                      {<<fieldTagValue(tasks[g].type.fields[1]), RuleMessage("required", <<>>)>>})
    /\ [][\A k \in MapKeys(fieldCache) :
              /\ MapHas(fieldCache', k)
              /\ MapGet(fieldCache', k) = MapGet(fieldCache, k)]_vars

====
